---- MODULE Spec2Model ----
(***************************************************************************)
(* A model of the qobuz-proxy renderer.                                    *)
(*                                                                         *)
(* Spec    : the player (playback/player.py), the SET_STATE / SET_ACTIVE   *)
(*           command handler (playback/command_handler.py) and the local   *)
(*           audio backend (backends/local/backend.py) under asyncio's     *)
(*           cooperative scheduling.  Every handler is an asyncio task     *)
(*           (app.py creates one per inbound message); a task runs until    *)
(*           it awaits real I/O, and any other ready task may run then.    *)
(* SpecRace: the same player under SET_STATE messages alone.               *)
(* SpecWs  : the WebSocket session (connect/ws_manager.py).                *)
(* SpecCodec: the frame codec (connect/protocol.py).                       *)
(* SpecDiscovery: the discovery HTTP endpoints (connect/discovery.py) and  *)
(*           the WebSocket setup they trigger (app.py).                    *)
(* SpecQueue: the queue (playback/queue.py): load, shuffle, navigation     *)
(*           and the preload loop.                                         *)
(* SpecReport: the state report from the player's anchor to the wire       *)
(*           (playback/state_reporter.py, app.py, connect/protocol.py).    *)
(* SpecVolume: set_volume from the player down to the DLNA client's        *)
(*           debounce (backends/dlna/client.py).                           *)
(* SpecDlna: the DLNA backend's commands and its state poll loop           *)
(*           (backends/dlna/backend.py).                                   *)
(* SpecProxy: the audio proxy, the streaming URL cache and the URL the    *)
(*           queue track keeps (backends/dlna/proxy_server.py,             *)
(*           playback/metadata.py, playback/queue.py, playback/player.py). *)
(* SpecRing: the ring buffer under a writer, a reader and clear()          *)
(*           (backends/local/ring_buffer.py); SpecSpsc: without clear().   *)
(* SpecShutdown: the application's start and stop (app.py).                *)
(***************************************************************************)
EXTENDS Integers, Sequences, FiniteSets, TLC

(***************************************************************************)
(* Bounds of the model.                                                    *)
(***************************************************************************)
\* number of handler tasks that can be alive at once
NTasks == 2
\* track ids the controller may name (track_id = queue_item_id here)
NumTracks == 2
\* tracks loaded by a queue-load message
QueueLen == 1
\* number of clock ticks
MaxTicks == 1
\* number of inputs the controller gives (messages and calls) under Spec
MaxInputs == 2
\* decoded length of every track, in frames
TotalFrames == 2
\* frames per second of the decoded audio (scaled down)
SampleRate == 1
\* CHUNK_SIZE of the feeder (scaled down)
ChunkFrames == 1
\* BUFFER_SECONDS of the ring buffer (scaled down)
BufferSeconds == 2
\* frames the audio callback takes per call (blocksize, scaled down)
BlockFrames == 1

\* the clock advances by TickMs, at most MaxTicks times
TickMs == 1000
\* seek() keeps this distance from the end of the track (player.py: duration - 1000)
SEEK_END_MARGIN_MS == 1000

TaskIds == 1..NTasks
Tracks == 1..NumTracks
ObjIds == 1..(QueueLen + NTasks + 2)
MaxNow == MaxTicks * TickMs

Min(a, b) == IF a < b THEN a ELSE b
Max(a, b) == IF a > b THEN a ELSE b
Range(s) == {s[i] : i \in DOMAIN s}

\* int(frames / sample_rate * 1000)
FramesToMs(frames) == (frames * 1000) \div SampleRate
\* int(position_ms / 1000 * sample_rate)
MsToFrames(ms) == (ms * SampleRate) \div 1000
\* duration_ms the metadata service returns for a track
Duration(tid) == FramesToMs(TotalFrames)

VARIABLES
    \* ---- QobuzPlayer fields
    state,                  \* _state
    current_track,          \* _current_track: an object id, 0 is None
    current_duration_ms,    \* _current_duration_ms
    position_value_ms,      \* _position_value_ms
    position_timestamp_ms,  \* _position_timestamp_ms
    \* ---- QueueTrack objects (shared by reference)
    heap,
    \* ---- PlaybackCommandHandler._next_track_info: a track id, 0 is None
    next_track_info,
    \* ---- QobuzQueue
    queue_tracks, current_index, repeat_mode,
    \* ---- LocalAudioBackend
    backend,
    \* ---- asyncio tasks
    tasks, running, error_reports,
    \* ---- the state report built by the last step
    last_report,
    \* ---- wall clock, in ms
    now,
    \* ---- history
    ev, last_set_state_had_next, received,
    \* ---- WsManager
    ws_phase,               \* where _connect_and_run stands; _ws is set unless "idle"
    is_connected,           \* _is_connected
    pending_messages,       \* _pending_messages
    flush_index,            \* position of the for loop of _flush_pending_messages
    broken,                 \* the peer has closed the connection: sends raise
    connection,             \* number of the current connection attempt
    wire,                   \* the frames written, each with its connection
    send_calls,             \* number of send_message calls made so far
    should_run,             \* _should_run
    token_expired,          \* _ws_token.is_expired()
    reconnect_delay,        \* _reconnect_delay, in seconds
    max_audio_quality,      \* WsManager._max_audio_quality
    effective_quality,      \* QobuzProxy._effective_quality
    \* ---- WsManager, history
    last_wait,              \* the delay the reconnect loop slept last
    fails,                  \* turns of the reconnect loop ended since the last live
    buffered,               \* the frames submitted while _is_connected was False
    ws_ev,                  \* what the last step of the session was
    \* ---- ProtocolCodec
    msg_counter,            \* _msg_counter
    last_msg_id,            \* the msgId of the frame the last encode call made
    codec_ev,               \* what the last call of the codec did
    \* ---- DiscoveryService
    received_tokens,        \* _received_tokens: the session of the tokens, 0 is None
    current_session_id,     \* _current_session_id, 0 is None
    on_connect_calls,       \* number of calls of on_connect made so far
    posts,                  \* number of POSTs handled so far
    setup_tasks,            \* sessions of the _setup_websocket tasks scheduled
    app_ws_manager,         \* session of the tokens of app._ws_manager, 0 is None
    connection_loops,       \* sessions of the WsManagers whose _connection_loop runs
    disc_ev,                \* what the last request of the discovery server did
    \* ---- QobuzQueue, by value, with shuffle and preload
    q_tracks,               \* _tracks, indexed from 0
    shuffled_indexes,       \* _shuffled_indexes, indexed from 0
    q_current_index,        \* _current_index
    shuffle_enabled,        \* _shuffle_enabled
    q_repeat_mode,          \* _repeat_mode
    preloaded_ids,          \* _preloaded_ids
    to_preload,             \* tracks_to_preload of the _preload_upcoming under way
    q_loads,                \* number of load_queue and clear calls so far
    q_ev,                   \* what the last step on the queue did
    \* ---- StateReporter and the state report on the wire
    sr_state,               \* player.state as the reporter reads it
    sr_position_value_ms,   \* player._position_value_ms
    sr_position_timestamp_ms,\* player._position_timestamp_ms
    sr_now,                 \* int(time.time() * 1000)
    sr_report,              \* the report built and not yet sent, NoStateReport if none
    sr_wire,                \* the currentPosition of the last state update sent
    \* ---- volume: QobuzPlayer.set_volume over DLNABackend and DLNAClient
    vol_now,                \* time.time() * 1000
    vol_calls,              \* the set_volume calls: where each is, and its level
    volume_lock,            \* holder of DLNAClient._volume_lock, 0 if free
    volume_waiters,         \* the tasks waiting for _volume_lock, first come first
    last_volume_time_ms,    \* DLNAClient._last_volume_time_ms
    pending_volume,         \* DLNAClient._pending_volume, -1 is None
    volume_debounce_task,   \* DLNAClient._volume_debounce_task
    soap_sends,             \* DesiredVolume of the SetVolume calls sent, in order
    backend_volume,         \* DLNABackend._volume
    player_volume,          \* QobuzPlayer._volume
    volume_reports,         \* the VOLUME_CHANGED reports sent, in order
    vol_ev,                 \* what the set_volume call that ended last did
    \* ---- DLNABackend: transport commands and the state poll
    dl_now,                 \* time.monotonic(), in seconds
    dl_state,               \* DLNABackend._state
    playback_started_at,    \* DLNABackend._playback_started_at
    device_state,           \* CurrentTransportState of the renderer
    stopped_by,             \* what brought the renderer to STOPPED
    in_flight,              \* the SOAP calls sent and not yet answered
    poll,                   \* _poll_state_loop: where it is and when its sleep ends
    dl_command,             \* the transport command of the player under way
    dl_last_command,        \* the transport command that succeeded last
    track_ended,            \* number of track_ended events so far
    dl_ev,                  \* what the last pass of the poll loop did
    \* ---- AudioProxyServer and the MetadataService cache entry of its track
    px_now,                 \* time.time(), in seconds
    px_track,               \* the RegisteredTrack of the track
    px_cache,               \* the TrackMetadata cached for the track
    px_urls,                \* number of streaming URLs the API has issued
    px_issued,              \* per URL issued: when, and under which max_quality
    px_queue_url,           \* QueueTrack.streaming_url of the track, 0 is None
    px_quality,             \* MetadataService._max_quality
    px_ev,                  \* what the last request to the proxy did
    \* ---- RingBuffer and the threads that call it
    rb_buffer,              \* RingBuffer._buffer: cell -> frame, 0 for a zero frame
    rb_write_pos,           \* RingBuffer._write_pos
    rb_read_pos,            \* RingBuffer._read_pos
    rb_available,           \* RingBuffer._available
    rb_lock,                \* the holder of RingBuffer._lock
    rb_writer,              \* the thread inside write(): its position, data and frames
    rb_reader,              \* the thread inside read(): its position, output and actual
    rb_clearer,             \* the thread inside clear(): its position
    rb_written,             \* the frames write() accepted, in order
    rb_read,                \* the frames read() returned before its padding, in order
    \* ---- QobuzProxy.start and QobuzProxy.stop
    app_started,            \* start() was called
    app_is_running,         \* QobuzProxy._is_running
    app_present,            \* the components that are not None
    app_stop_pc,            \* the step stop() is at: 0 before it, 7 after its last
    app_at_stop,            \* the components present when stop() began
    stop_attempts,          \* the components whose stop was awaited, in order
    stop_failed,            \* the components whose stop raised
    backend_disconnects     \* calls of backend.disconnect()

playerVars == <<state, current_track, current_duration_ms, position_value_ms,
                position_timestamp_ms>>
queueVars == <<queue_tracks, current_index, repeat_mode>>
histVars == <<ev, last_set_state_had_next, received>>
wsVars == <<ws_phase, is_connected, pending_messages, flush_index, broken,
            connection, wire, send_calls, should_run, token_expired,
            reconnect_delay, max_audio_quality, effective_quality, last_wait,
            fails, buffered, ws_ev>>
appVars == <<playerVars, heap, next_track_info, queueVars, backend, tasks, running,
             error_reports, last_report, now, histVars>>
codecVars == <<msg_counter, last_msg_id, codec_ev>>
discVars == <<received_tokens, current_session_id, on_connect_calls, posts,
              setup_tasks, app_ws_manager, connection_loops, disc_ev>>
qVars == <<q_tracks, shuffled_indexes, q_current_index, shuffle_enabled,
           q_repeat_mode, preloaded_ids, to_preload, q_loads, q_ev>>
srVars == <<sr_state, sr_position_value_ms, sr_position_timestamp_ms, sr_now,
             sr_report, sr_wire>>
volVars == <<vol_now, vol_calls, volume_lock, volume_waiters,
              last_volume_time_ms, pending_volume, volume_debounce_task,
              soap_sends, backend_volume, player_volume, volume_reports,
              vol_ev>>
dlnaVars == <<dl_now, dl_state, playback_started_at, device_state, stopped_by, in_flight,
               poll, dl_command, dl_last_command, track_ended, dl_ev>>
proxyVars == <<px_now, px_track, px_cache, px_urls, px_issued, px_queue_url,
               px_quality, px_ev>>
ringVars == <<rb_buffer, rb_write_pos, rb_read_pos, rb_available, rb_lock,
               rb_writer, rb_reader, rb_clearer, rb_written, rb_read>>
shutVars == <<app_started, app_is_running, app_present, app_stop_pc,
               app_at_stop, stop_attempts, stop_failed, backend_disconnects>>
\* what the steps of each part leave alone
nonPlayerVars == <<wsVars, codecVars, discVars, qVars, srVars, volVars,
                    dlnaVars, proxyVars, ringVars, shutVars>>
nonWsVars == <<appVars, codecVars, discVars, qVars, srVars, volVars,
                dlnaVars, proxyVars, ringVars, shutVars>>
nonCodecVars == <<appVars, wsVars, discVars, qVars, srVars, volVars,
                   dlnaVars, proxyVars, ringVars, shutVars>>
nonDiscVars == <<appVars, wsVars, codecVars, qVars, srVars, volVars,
                  dlnaVars, proxyVars, ringVars, shutVars>>
nonQueueVars == <<appVars, wsVars, codecVars, discVars, srVars, volVars,
                   dlnaVars, proxyVars, ringVars, shutVars>>
nonReportVars == <<appVars, wsVars, codecVars, discVars, qVars, volVars,
                    dlnaVars, proxyVars, ringVars, shutVars>>
nonVolumeVars == <<appVars, wsVars, codecVars, discVars, qVars, srVars,
                    dlnaVars, proxyVars, ringVars, shutVars>>
nonDlnaVars == <<appVars, wsVars, codecVars, discVars, qVars, srVars,
                  volVars, proxyVars, ringVars, shutVars>>
nonProxyVars == <<appVars, wsVars, codecVars, discVars, qVars, srVars,
                   volVars, dlnaVars, ringVars, shutVars>>
nonRingVars == <<appVars, wsVars, codecVars, discVars, qVars, srVars,
                  volVars, dlnaVars, proxyVars, shutVars>>
nonShutdownVars == <<appVars, wsVars, codecVars, discVars, qVars, srVars,
                      volVars, dlnaVars, proxyVars, ringVars>>
vars == <<appVars, wsVars, codecVars, discVars, qVars, srVars, volVars,
           dlnaVars, proxyVars, ringVars, shutVars>>

NullTrack == [track_id |-> 0, url |-> 0, meta |-> FALSE, duration_ms |-> 0]
IdleTask == [pc |-> "idle", op |-> "none", tid |-> 0, ps |-> 0, pos |-> 0,
             trk |-> 0, lurl |-> 0, load_done |-> FALSE, prev |-> 0]
\* DLNAClient: minimum time between two SetVolume sends
VOLUME_MIN_INTERVAL_MS == 200
\* set_volume calls considered
NVolCalls == 5
\* DLNABackend: poll interval and grace period after a play, in seconds
STATE_POLL_INTERVAL_SECONDS == 2
PLAYBACK_START_GRACE_PERIOD_SECONDS == 5
\* the ring buffer's capacity in frames, and the frames of the decoded track
Capacity == 3
MaxFrames == 6
NoEvent == [kind |-> "none"]
\* no state report built, or none sent yet
NoStateReport == [playing_state |-> "none", timestamp |-> 0, value |-> 0,
                  anchor_timestamp |-> 0]

\* Labels at which a task is NOT suspended: it goes on in the same turn of the
\* event loop and nothing else on the loop can run before it.
TransitPcs == {"lt_begin", "pl_begin", "pa_begin", "st_begin", "sp_begin"}

\* Labels at which a task is suspended inside a player operation with state
\* changes of that operation still to come.
MidOpPcs == {"lt_stop_wait", "lt_url", "sp_url", "sp_cancel_wait", "sp_download",
             "st_stop_wait"}

TrackId(o) == IF o = 0 THEN 0 ELSE heap[o].track_id

Refs(cur, tks, q) == {cur} \cup {tks[t].trk : t \in TaskIds} \cup Range(q)
GC(h, R) == [o \in ObjIds |-> IF o \in R THEN h[o] ELSE NullTrack]
FreeObj == CHOOSE o \in ObjIds :
              /\ o \notin Refs(current_track, tasks, queue_tracks)
              /\ \A p \in ObjIds : p < o => p \in Refs(current_track, tasks, queue_tracks)

IdleTasks == {t \in TaskIds : tasks[t].pc = "idle"}
FreeTask == CHOOSE t \in IdleTasks : \A u \in IdleTasks : t <= u

\* player.current_position_ms
current_position_ms ==
    IF state # "playing" THEN position_value_ms
    ELSE position_value_ms + (now - position_timestamp_ms)

\* StateReporter._build_state_report on the given player values; away from
\* playing, current_position_ms is the anchor value and the timestamp is now
BuildReport(st, val, ts, dur, item) ==
    [playing_state |-> st,
     position_timestamp_ms |-> IF st = "playing" THEN ts ELSE now,
     position_value_ms |-> val,
     duration_ms |-> dur,
     current_queue_item_id |-> item]
NoReport == [playing_state |-> "none", position_timestamp_ms |-> 0,
             position_value_ms |-> 0, duration_ms |-> 0, current_queue_item_id |-> 0]

(***************************************************************************)
(* LocalAudioBackend: the parts of its methods that run without suspension *)
(***************************************************************************)
InitBackend == [state |-> "stopped", feeding |-> "none", frames_fed |-> 0,
                total_frames |-> 0, seek_target |-> -1, ring |-> 0,
                paused |-> FALSE, started |-> FALSE, sample_rate |-> 0,
                audio |-> 0, orphans |-> 0]

RingCapacity == SampleRate * BufferSeconds

LocalPause(b) == [b EXCEPT !.paused = TRUE, !.state = "paused"]
LocalResume(b) == [b EXCEPT !.paused = FALSE, !.state = "playing"]
LocalSeek(b, ms) == IF b.sample_rate > 0
                    THEN [b EXCEPT !.seek_target = MsToFrames(ms)]
                    ELSE b
\* _cancel_feeding up to its await: the feeder gets no further turn
LocalCancel(b) == [b EXCEPT !.feeding = "none"]
\* stop() after _cancel_feeding returned
LocalStopRest(b) == [b EXCEPT !.ring = 0, !.started = FALSE, !.frames_fed = 0,
                              !.audio = 0, !.state = "stopped"]
\* play() after the download: decoded and started / the except branch.
\* _feeding_task is overwritten: a feeder it referred to that is still alive
\* stays alive with nothing left to cancel it (counted in orphans; the turns
\* of such a feeder are not modelled)
LocalPlayOk(b, url) == [b EXCEPT !.audio = url, !.sample_rate = SampleRate,
                                 !.total_frames = TotalFrames, !.frames_fed = 0,
                                 !.seek_target = -1, !.ring = 0, !.started = TRUE,
                                 !.feeding = "feed", !.state = "playing",
                                 !.orphans = IF b.feeding # "none" THEN b.orphans + 1
                                             ELSE b.orphans]
\* the feeder tasks that have been created and have neither ended nor
\* been cancelled
LiveFeeders(b) == (IF b.feeding # "none" THEN 1 ELSE 0) + b.orphans
LocalPlayFailed(b) == [b EXCEPT !.state = "error"]

(***************************************************************************)
(* Scheduling helpers                                                      *)
(***************************************************************************)
CanRun(t) == running \in {0, t}
Goto(t, rec) == /\ tasks' = [tasks EXCEPT ![t] = rec]
                /\ running' = IF rec.pc \in TransitPcs THEN t ELSE 0
Finish(t) == /\ tasks' = [tasks EXCEPT ![t] = IdleTask]
             /\ running' = 0
HeapAfter(h, cur) == heap' = GC(h, Refs(cur, tasks', queue_tracks))
\* last_report is the state report the last step built, NoReport if none
Report(st, val, ts, dur, item) == last_report' = BuildReport(st, val, ts, dur, item)
Silent == last_report' = NoReport

Init ==
    /\ state = "stopped"
    /\ current_track = 0
    /\ current_duration_ms = 0
    /\ position_value_ms = 0
    /\ position_timestamp_ms = 0
    /\ heap = [o \in ObjIds |-> NullTrack]
    /\ next_track_info = 0
    /\ queue_tracks = <<>>
    /\ current_index = 0
    /\ repeat_mode = "off"
    /\ backend = InitBackend
    /\ tasks = [t \in TaskIds |-> IdleTask]
    /\ running = 0
    /\ error_reports = 0
    /\ last_report = NoReport
    /\ received = 0
    /\ now = 0
    /\ ev = NoEvent
    /\ last_set_state_had_next = FALSE
    /\ ws_phase = "idle"
    /\ is_connected = FALSE
    /\ pending_messages = <<>>
    /\ flush_index = 0
    /\ broken = FALSE
    /\ connection = 0
    /\ wire = <<>>
    /\ send_calls = 0
    /\ should_run = TRUE
    /\ token_expired = FALSE
    /\ reconnect_delay = 1
    /\ max_audio_quality = 27
    /\ effective_quality = 27
    /\ last_wait = 0
    /\ fails = 0
    /\ buffered = {}
    /\ ws_ev = NoEvent
    /\ msg_counter = 0
    /\ last_msg_id = 0
    /\ codec_ev = NoEvent
    /\ received_tokens = 0
    /\ current_session_id = 0
    /\ on_connect_calls = 0
    /\ posts = 0
    /\ setup_tasks = <<>>
    /\ app_ws_manager = 0
    /\ connection_loops = <<>>
    /\ disc_ev = NoEvent
    /\ q_tracks = <<>>
    /\ shuffled_indexes = <<>>
    /\ q_current_index = 0
    /\ shuffle_enabled = FALSE
    /\ q_repeat_mode = "off"
    /\ preloaded_ids = {}
    /\ to_preload = <<>>
    /\ q_loads = 0
    /\ q_ev = NoEvent
    /\ sr_state = "stopped"
    /\ sr_position_value_ms = 0
    /\ sr_position_timestamp_ms = 0
    /\ sr_now = 0
    /\ sr_report = NoStateReport
    /\ sr_wire = NoStateReport
    /\ vol_now = VOLUME_MIN_INTERVAL_MS
    /\ vol_calls = [c \in 1..NVolCalls |-> [pc |-> "new", level |-> 0, at |-> 0]]
    /\ volume_lock = 0
    /\ volume_waiters = <<>>
    /\ last_volume_time_ms = 0
    /\ pending_volume = -1
    /\ volume_debounce_task = [st |-> "none", wake |-> 0]
    /\ soap_sends = <<>>
    /\ backend_volume = 50
    /\ player_volume = 50
    /\ volume_reports = <<>>
    /\ vol_ev = NoEvent
    /\ dl_now = PLAYBACK_START_GRACE_PERIOD_SECONDS
    /\ dl_state = "stopped"
    /\ playback_started_at = 0
    /\ device_state = "STOPPED"
    /\ stopped_by = "none"
    /\ in_flight = {}
    /\ poll = [pc |-> "sleep", wake |-> PLAYBACK_START_GRACE_PERIOD_SECONDS + STATE_POLL_INTERVAL_SECONDS]
    /\ dl_command = "idle"
    /\ dl_last_command = "none"
    /\ track_ended = 0
    /\ dl_ev = NoEvent
    /\ px_now = 0
    /\ px_track = [registered |-> FALSE, qobuz_url |-> 0, url_fetched_at |-> 0]
    /\ px_cache = [present |-> FALSE, streaming_url |-> 0, streaming_url_expires_at |-> 0]
    /\ px_urls = 0
    /\ px_issued = <<>>
    /\ px_queue_url = 0
    /\ px_quality = 27
    /\ px_ev = NoEvent
    /\ rb_buffer = [i \in 0..(Capacity - 1) |-> 0]
    /\ rb_write_pos = 0
    /\ rb_read_pos = 0
    /\ rb_available = 0
    /\ rb_lock = "none"
    /\ rb_writer = [pc |-> "idle", data |-> <<>>, frames |-> 0]
    /\ rb_reader = [pc |-> "idle", output |-> <<>>, actual |-> 0]
    /\ rb_clearer = "idle"
    /\ rb_written = <<>>
    /\ rb_read = <<>>
    /\ app_started = FALSE
    /\ app_is_running = FALSE
    /\ app_present = {}
    /\ app_stop_pc = 0
    /\ app_at_stop = {}
    /\ stop_attempts = <<>>
    /\ stop_failed = {}
    /\ backend_disconnects = 0

(***************************************************************************)
(* Environment                                                             *)
(***************************************************************************)
\* time passes
Tick ==
    /\ running = 0
    /\ UNCHANGED nonPlayerVars
    /\ now < MaxNow
    /\ now' = now + TickMs
    /\ ev' = NoEvent
    /\ UNCHANGED <<playerVars, heap, next_track_info, queueVars, backend, tasks, running,
                   error_reports, last_set_state_had_next,
                   received>>
    /\ Silent

\* QobuzQueue.load_queue with QueueLen tracks, the cursor on item cur
QueueLoad(cur) ==
    /\ running = 0
    /\ UNCHANGED nonPlayerVars
    /\ received' = received + 1
    /\ queue_tracks = <<>>
    /\ LET free == {o \in ObjIds : o \notin Refs(current_track, tasks, queue_tracks)}
           objs == CHOOSE q \in [1..QueueLen -> free] :
                      /\ \A i, j \in 1..QueueLen : i < j => q[i] < q[j]
                      /\ \A o \in free : (\E i \in 1..QueueLen : o < q[i]) =>
                                             (\E i \in 1..QueueLen : o = q[i])
       IN /\ queue_tracks' = objs
          /\ heap' = [o \in ObjIds |->
                        IF \E i \in 1..QueueLen : objs[i] = o
                        THEN [NullTrack EXCEPT !.track_id =
                                 CHOOSE i \in 1..QueueLen : objs[i] = o]
                        ELSE heap[o]]
    /\ current_index' = cur
    /\ ev' = NoEvent
    /\ UNCHANGED <<playerVars, next_track_info, repeat_mode, backend, tasks, running,
                   error_reports, now, last_set_state_had_next>>
    /\ Silent

\* SET_LOOP_MODE: player.set_loop_mode -> queue.set_repeat_mode
SetLoopMode(m) ==
    /\ running = 0
    /\ UNCHANGED nonPlayerVars
    /\ received' = received + 1
    /\ repeat_mode # m
    /\ repeat_mode' = m
    /\ ev' = NoEvent
    /\ UNCHANGED <<playerVars, heap, next_track_info, queue_tracks, current_index,
                   backend, tasks, running, error_reports, now, last_set_state_had_next>>
    /\ Silent

(***************************************************************************)
(* QobuzPlayer.seek: with the local backend nothing in it suspends before  *)
(* the final send, so the call is one step.                                *)
(***************************************************************************)
SeekPositions == {0 - TickMs, 0, TickMs, Duration(1) + TickMs}

\* what seek() finds when it is called
Snap == [state |-> state, track |-> current_track, dur |-> current_duration_ms,
         value |-> position_value_ms, seek_target |-> backend.seek_target]

\* the position seek() asks the backend for
\* a clamp that keeps no margin before the end of the track
SeekClampToEnd(p, duration) == Max(0, Min(p, Max(0, duration)))

SeekClamp(p, duration) == Max(0, Min(p, Max(0, duration - SEEK_END_MARGIN_MS)))

\* the conditions under which seek() returns False before doing anything
SeekRejects == \/ state = "stopped"
               \/ current_track = 0
               \/ current_duration_ms <= 0

Seek(p) ==
    /\ running = 0
    /\ UNCHANGED nonPlayerVars
    /\ received' = received + 1
    /\ ev' = [kind |-> "seek", p |-> p, pre |-> Snap]
    /\ IF SeekRejects
       THEN /\ UNCHANGED <<backend, position_value_ms, position_timestamp_ms>>
            /\ Silent
       ELSE LET clamped == SeekClamp(p, current_duration_ms)
            IN /\ backend' = LocalSeek(backend, clamped)
               /\ position_value_ms' = clamped
               /\ position_timestamp_ms' = now
               /\ Report(state, clamped, now, current_duration_ms, TrackId(current_track))
    /\ UNCHANGED <<state, current_track, current_duration_ms, heap, next_track_info,
                   queueVars, tasks, running, error_reports, now,
                   last_set_state_had_next>>

(***************************************************************************)
(* PlaybackCommandHandler                                                  *)
(***************************************************************************)
\* the player operation a playingState value starts
ApplyPc(ps) == CASE ps = 2 -> "pl_begin"
                 [] ps = 3 -> "pa_begin"
                 [] ps = 1 -> "st_begin"
                 [] OTHER  -> "idle"

\* _handle_set_state up to its first await: load_track first when the
\* message names another track than the player's
AfterExtract(need, ps) == IF need THEN "lt_begin" ELSE ApplyPc(ps)

\* SET_STATE with currentQueueItem cur, nextQueueItem nxt (0: field absent),
\* playingState ps (0: absent) and currentPosition pos
HandleSetState(cur, nxt, ps, pos) ==
    /\ running = 0
    /\ UNCHANGED nonPlayerVars
    /\ IdleTasks # {}
    /\ received' = received + 1
    /\ LET t == FreeTask
           need == cur # 0 /\ cur # TrackId(current_track)
       IN IF AfterExtract(need, ps) = "idle"
          THEN UNCHANGED <<tasks, running>>
          ELSE Goto(t, [IdleTask EXCEPT !.pc = AfterExtract(need, ps),
                                        !.op = "set_state",
                                        !.tid = IF need THEN cur ELSE 0,
                                        !.ps = ps,
                                        !.pos = IF ps = 2 THEN pos ELSE 0,
                                        !.prev = IF need THEN TrackId(current_track)
                                                 ELSE 0])
    /\ next_track_info' = IF nxt # 0 THEN nxt ELSE next_track_info
    /\ last_set_state_had_next' = (nxt # 0)
    /\ ev' = NoEvent
    /\ UNCHANGED <<playerVars, heap, queueVars, backend, error_reports, now>>
    /\ Silent

\* SET_ACTIVE(active = false): stop_playback
HandleSetInactive ==
    /\ running = 0
    /\ UNCHANGED nonPlayerVars
    /\ IdleTasks # {}
    /\ received' = received + 1
    /\ Goto(FreeTask, [IdleTask EXCEPT !.pc = "st_begin", !.op = "set_active"])
    /\ ev' = NoEvent
    /\ UNCHANGED <<playerVars, heap, next_track_info, queueVars, backend, error_reports,
                   now, last_set_state_had_next>>
    /\ Silent

(***************************************************************************)
(* QobuzPlayer.load_track                                                  *)
(***************************************************************************)
NewTrack(tid) == [NullTrack EXCEPT !.track_id = tid]

\* entry: stop the backend when playing or paused, then create the track
LoadTrackBegin(t) ==
    /\ CanRun(t)
    /\ UNCHANGED nonPlayerVars
    /\ tasks[t].pc = "lt_begin"
    /\ ev' = NoEvent
    /\ IF state \in {"playing", "paused"} /\ backend.feeding # "none"
       THEN /\ backend' = LocalCancel(backend)
            /\ Goto(t, [tasks[t] EXCEPT !.pc = "lt_stop_wait"])
            /\ UNCHANGED <<playerVars, heap>>
       ELSE /\ backend' = IF state \in {"playing", "paused"}
                          THEN LocalStopRest(backend) ELSE backend
            /\ state' = IF state \in {"playing", "paused"} THEN "stopped" ELSE state
            /\ current_track' = FreeObj
            /\ Goto(t, [tasks[t] EXCEPT !.pc = "lt_url"])
            /\ HeapAfter([heap EXCEPT ![FreeObj] = NewTrack(tasks[t].tid)], FreeObj)
            /\ UNCHANGED <<current_duration_ms, position_value_ms, position_timestamp_ms>>
    /\ UNCHANGED <<next_track_info, queueVars, error_reports, now,
                   last_set_state_had_next,
                   received>>
    /\ Silent

\* backend.stop() resumes after the cancelled feeder has ended
LoadTrackStopped(t) ==
    /\ CanRun(t)
    /\ UNCHANGED nonPlayerVars
    /\ tasks[t].pc = "lt_stop_wait"
    /\ ev' = NoEvent
    /\ backend' = LocalStopRest(backend)
    /\ state' = "stopped"
    /\ current_track' = FreeObj
    /\ Goto(t, [tasks[t] EXCEPT !.pc = "lt_url"])
    /\ HeapAfter([heap EXCEPT ![FreeObj] = NewTrack(tasks[t].tid)], FreeObj)
    /\ UNCHANGED <<current_duration_ms, position_value_ms, position_timestamp_ms,
                   next_track_info, queueVars, error_reports, now,
                   last_set_state_had_next,
                   received>>
    /\ Silent

\* the URL request returns (ok: a URL came back); the result goes to
\* _handle_set_state, which ignores it, or to play_track
LoadTrackUrl(t, ok) ==
    /\ CanRun(t)
    /\ UNCHANGED nonPlayerVars
    /\ tasks[t].pc = "lt_url"
    /\ LET tk == tasks[t]
           loaded == ok /\ current_track # 0
           h == IF loaded
                THEN [heap EXCEPT ![current_track] =
                         [@ EXCEPT !.url = tk.tid, !.meta = TRUE,
                                   !.duration_ms = Duration(tk.tid)]]
                ELSE heap
           start == tk.op = "track_ended" /\ loaded
       IN /\ ev' = NoEvent
          /\ current_duration_ms' = IF loaded THEN Duration(tk.tid)
                                    ELSE current_duration_ms
          /\ position_value_ms' = IF start THEN 0 ELSE position_value_ms
          /\ position_timestamp_ms' = IF start THEN now ELSE position_timestamp_ms
          /\ IF tk.op = "track_ended"
             THEN IF loaded THEN Goto(t, [tk EXCEPT !.pc = "sp_begin", !.load_done = TRUE])
                  ELSE Finish(t)
             ELSE IF ApplyPc(tk.ps) = "idle" THEN Finish(t)
                  ELSE Goto(t, [tk EXCEPT !.pc = ApplyPc(tk.ps), !.load_done = TRUE])
          /\ UNCHANGED <<state, current_track>>
          /\ HeapAfter(h, current_track)
    /\ UNCHANGED <<next_track_info, queueVars, backend, error_reports, now,
                   last_set_state_had_next,
                   received>>
    /\ Silent

(***************************************************************************)
(* QobuzQueue navigation used by play()                                    *)
(***************************************************************************)
GetCurrentTrack == IF queue_tracks # <<>> /\ current_index < Len(queue_tracks)
                   THEN queue_tracks[current_index + 1] ELSE 0

\* advance_to_next: the track it returns and the cursor it leaves
AdvanceToNext ==
    IF queue_tracks = <<>> THEN [track |-> 0, index |-> current_index]
    ELSE IF repeat_mode = "one" THEN [track |-> GetCurrentTrack, index |-> current_index]
    ELSE IF current_index + 1 >= Len(queue_tracks)
         THEN IF repeat_mode = "all"
              THEN [track |-> queue_tracks[1], index |-> 0]
              ELSE [track |-> 0, index |-> current_index]
         ELSE [track |-> queue_tracks[current_index + 2], index |-> current_index + 1]

(***************************************************************************)
(* QobuzPlayer.play                                                        *)
(***************************************************************************)
PlayBegin(t) ==
    /\ CanRun(t)
    /\ UNCHANGED nonPlayerVars
    /\ tasks[t].pc = "pl_begin"
    /\ ev' = NoEvent
    /\ LET tk == tasks[t]
           adv == AdvanceToNext
           fromq == IF GetCurrentTrack # 0 THEN GetCurrentTrack ELSE adv.track
           trk == IF current_track # 0 THEN current_track ELSE fromq
       IN IF state = "paused"
          THEN /\ backend' = LocalResume(backend)
               /\ state' = "playing"
               /\ position_timestamp_ms' = now
               /\ Report("playing", position_value_ms, now, current_duration_ms,
                         TrackId(current_track))
               /\ Finish(t)
               /\ UNCHANGED <<current_track, current_duration_ms, position_value_ms,
                              current_index>>
          ELSE IF state = "playing" \/ trk = 0
          THEN /\ Finish(t)
               /\ current_index' = IF state # "playing" /\ current_track = 0
                                      /\ GetCurrentTrack = 0
                                   THEN adv.index ELSE current_index
               /\ UNCHANGED <<playerVars, backend>>
               /\ Silent
          ELSE /\ current_track' = trk
               /\ current_index' = current_index
               /\ position_value_ms' = IF tk.pos > 0 THEN tk.pos ELSE position_value_ms
               /\ position_timestamp_ms' = IF tk.pos > 0 THEN now
                                           ELSE position_timestamp_ms
               /\ Goto(t, [tk EXCEPT !.pc = "sp_begin"])
               /\ UNCHANGED <<state, current_duration_ms, backend>>
               /\ Silent
    /\ HeapAfter(heap, current_track')
    /\ UNCHANGED <<next_track_info, queue_tracks, repeat_mode, error_reports, now,
                   last_set_state_had_next, received>>

(***************************************************************************)
(* QobuzPlayer._start_playback with LocalAudioBackend.play.  The state     *)
(* reports are handed to the session without suspension here; the session  *)
(* itself is SpecWs.                                                       *)
(***************************************************************************)
\* bound on the state-report tasks _on_playback_error has created and that
\* have not run yet (further ones are merged into the pending one)
MaxErrorReports == 1

\* LocalAudioBackend.play up to its first suspension, for the task record tk
\* of task t: the wait for the cancelled feeder, or the download
BackendPlayStart(t, tk) ==
    IF backend.feeding # "none"
    THEN /\ backend' = LocalCancel(backend)
         /\ Goto(t, [tk EXCEPT !.pc = "sp_cancel_wait"])
    ELSE /\ backend' = [backend EXCEPT !.state = "loading"]
         /\ Goto(t, [tk EXCEPT !.pc = "sp_download"])

\* entry: state LOADING and a state report, then the URL request or, with
\* the URL at hand, backend.play
StartPlaybackBegin(t) ==
    /\ CanRun(t)
    /\ UNCHANGED nonPlayerVars
    /\ tasks[t].pc = "sp_begin"
    /\ LET tk == [tasks[t] EXCEPT !.trk = current_track, !.tid = 0, !.prev = 0,
                                  !.ps = 0, !.load_done = FALSE]
       IN /\ ev' = [kind |-> "sp_begin", op |-> tasks[t].op, want |-> tasks[t].tid,
                    prev |-> tasks[t].prev, id |-> TrackId(current_track)]
          /\ IF current_track = 0
             THEN /\ Finish(t)
                  /\ UNCHANGED <<state, backend>>
                  /\ Silent
             ELSE /\ state' = "loading"
                  /\ Report("loading", position_value_ms, position_timestamp_ms,
                            current_duration_ms, TrackId(current_track))
                  /\ IF heap[current_track].url = 0
                     THEN /\ Goto(t, [tk EXCEPT !.pc = "sp_url"])
                          /\ UNCHANGED backend
                     ELSE BackendPlayStart(t, [tk EXCEPT !.lurl = heap[current_track].url])
    /\ HeapAfter(heap, current_track)
    /\ UNCHANGED <<current_track, current_duration_ms, position_value_ms,
                   position_timestamp_ms, next_track_info, queueVars,
                   error_reports, now, last_set_state_had_next, received>>

\* the URL request returns: state ERROR and a report, or backend.play
StartPlaybackUrl(t, ok) ==
    /\ CanRun(t)
    /\ UNCHANGED nonPlayerVars
    /\ tasks[t].pc = "sp_url"
    /\ ev' = IF ok THEN NoEvent ELSE [kind |-> "sp_no_url"]
    /\ LET tk == tasks[t]
           id == heap[tk.trk].track_id
       IN IF ok
          THEN /\ BackendPlayStart(t, [tk EXCEPT !.lurl = id])
               /\ HeapAfter([heap EXCEPT ![tk.trk] =
                                [@ EXCEPT !.url = id, !.meta = TRUE,
                                          !.duration_ms =
                                              IF heap[tk.trk].meta THEN @
                                              ELSE Duration(id)]],
                            current_track)
               /\ UNCHANGED <<state>>
               /\ Silent
          ELSE /\ state' = "error"
               /\ Report("error", position_value_ms, position_timestamp_ms,
                         current_duration_ms, TrackId(current_track))
               /\ Finish(t)
               /\ HeapAfter(heap, current_track)
               /\ UNCHANGED backend
    /\ UNCHANGED <<current_track, current_duration_ms, position_value_ms,
                   position_timestamp_ms, next_track_info, queueVars,
                   error_reports, now, last_set_state_had_next, received>>

\* the cancelled feeder has ended: the download starts
StartPlaybackCancelled(t) ==
    /\ CanRun(t)
    /\ UNCHANGED nonPlayerVars
    /\ tasks[t].pc = "sp_cancel_wait"
    /\ ev' = NoEvent
    /\ backend' = [backend EXCEPT !.state = "loading"]
    /\ Goto(t, [tasks[t] EXCEPT !.pc = "sp_download"])
    /\ UNCHANGED <<playerVars, heap, next_track_info, queueVars, error_reports,
                   now, last_set_state_had_next, received>>
    /\ Silent

\* the download and decode end (ok) or raise (not ok); backend.play() returns
\* normally either way, _start_playback goes on and returns True, and play()
\* seeks when it was given a position
StartPlaybackDownloaded(t, ok) ==
    /\ CanRun(t)
    /\ UNCHANGED nonPlayerVars
    /\ tasks[t].pc = "sp_download"
    /\ LET tk == tasks[t]
           dur == heap[tk.trk].duration_ms
           played == IF ok THEN LocalPlayOk(backend, tk.lurl)
                     ELSE LocalPlayFailed(backend)
       IN /\ backend' = IF tk.op = "set_state" /\ tk.pos > 0
                        THEN LocalSeek(played, tk.pos) ELSE played
          /\ error_reports' = IF ok THEN error_reports
                              ELSE Min(error_reports + 1, MaxErrorReports)
          /\ state' = "playing"
          /\ current_duration_ms' = dur
          /\ position_value_ms' = 0
          /\ position_timestamp_ms' = now
          /\ Report("playing", 0, now, dur, TrackId(current_track))
          /\ ev' = [kind |-> "sp_done", ok |-> ok]
          /\ Finish(t)
          /\ HeapAfter(heap, current_track)
    /\ UNCHANGED <<current_track, next_track_info, queueVars, now,
                   last_set_state_had_next, received>>

\* the task _on_playback_error created runs: _send_state_update
ErrorReport ==
    /\ running = 0
    /\ UNCHANGED nonPlayerVars
    /\ error_reports > 0
    /\ error_reports' = error_reports - 1
    /\ Report(state, position_value_ms, position_timestamp_ms, current_duration_ms,
              TrackId(current_track))
    /\ ev' = [kind |-> "error_report"]
    /\ UNCHANGED <<playerVars, heap, next_track_info, queueVars, backend, tasks,
                   running, now, last_set_state_had_next, received>>

(***************************************************************************)
(* QobuzPlayer.pause and stop_playback                                     *)
(***************************************************************************)
Pause(t) ==
    /\ CanRun(t)
    /\ UNCHANGED nonPlayerVars
    /\ tasks[t].pc = "pa_begin"
    /\ ev' = [kind |-> "pause", was |-> state, live |-> current_position_ms]
    /\ IF state # "playing"
       THEN /\ UNCHANGED <<state, position_value_ms, position_timestamp_ms, backend>>
            /\ Silent
       ELSE /\ position_value_ms' = current_position_ms
            /\ position_timestamp_ms' = now
            /\ backend' = LocalPause(backend)
            /\ state' = "paused"
            /\ Report("paused", current_position_ms, now, current_duration_ms,
                      TrackId(current_track))
    /\ Finish(t)
    /\ UNCHANGED <<current_track, current_duration_ms, heap, next_track_info,
                   queueVars, error_reports, now, last_set_state_had_next, received>>

\* stop_playback after backend.stop() has returned
\* a stop that keeps the position anchor where it was
StopKeepsPosition(t) ==
    /\ backend' = LocalStopRest(backend)
    /\ state' = "stopped"
    /\ position_timestamp_ms' = now
    /\ Report("stopped", position_value_ms, now, current_duration_ms,
              TrackId(current_track))
    /\ ev' = [kind |-> "stop", was |-> state, value |-> position_value_ms,
              track |-> current_track, index |-> current_index]
    /\ UNCHANGED position_value_ms
    /\ Finish(t)

StopFinal(t) ==
    /\ backend' = LocalStopRest(backend)
    /\ state' = "stopped"
    /\ position_value_ms' = 0
    /\ position_timestamp_ms' = now
    /\ Report("stopped", 0, now, current_duration_ms, TrackId(current_track))
    /\ ev' = [kind |-> "stop", was |-> state, value |-> position_value_ms,
              track |-> current_track, index |-> current_index]
    /\ Finish(t)

StopBegin(t) ==
    /\ CanRun(t)
    /\ UNCHANGED nonPlayerVars
    /\ tasks[t].pc = "st_begin"
    /\ IF backend.feeding # "none"
       THEN /\ backend' = LocalCancel(backend)
            /\ Goto(t, [tasks[t] EXCEPT !.pc = "st_stop_wait"])
            /\ ev' = NoEvent
            /\ UNCHANGED <<state, position_value_ms, position_timestamp_ms>>
            /\ Silent
       ELSE StopFinal(t)
    /\ UNCHANGED <<current_track, current_duration_ms, heap, next_track_info,
                   queueVars, error_reports, now, last_set_state_had_next, received>>

StopStopped(t) ==
    /\ CanRun(t)
    /\ UNCHANGED nonPlayerVars
    /\ tasks[t].pc = "st_stop_wait"
    /\ StopFinal(t)
    /\ UNCHANGED <<current_track, current_duration_ms, heap, next_track_info,
                   queueVars, error_reports, now, last_set_state_had_next, received>>

(***************************************************************************)
(* LocalAudioBackend._feeding_loop, one turn of the feeder task from one   *)
(* await to the next, and the PortAudio callback thread                    *)
(***************************************************************************)
\* BUFFER_HIGH_WATER, in percent
BUFFER_HIGH_WATER_PCT == 80

\* the task _on_track_ended creates
TrackEndedTask == [IdleTask EXCEPT !.pc = "te_begin", !.op = "track_ended"]

\* the end of _feeding_loop once the feed loop is left with frames fed f,
\* ring content r and seek target g
FeederDrain(f, r, g) ==
    LET b == [backend EXCEPT !.frames_fed = f, !.ring = r, !.seek_target = g]
    IN IF r > 0
       THEN /\ backend' = [b EXCEPT !.feeding = IF b.state = "stopped" THEN "none"
                                                ELSE "drain"]
            /\ ev' = NoEvent
            /\ UNCHANGED <<tasks, running>>
       ELSE /\ IdleTasks # {}
            /\ backend' = [b EXCEPT !.feeding = "none", !.state = "stopped"]
            /\ tasks' = [tasks EXCEPT ![FreeTask] = TrackEndedTask]
            /\ ev' = [kind |-> "track_ended"]
            /\ UNCHANGED running

\* a turn of the feed loop
FeederFeed ==
    /\ running = 0
    /\ UNCHANGED nonPlayerVars
    /\ backend.feeding = "feed"
    /\ LET b == backend
           seeks == b.frames_fed < b.total_frames /\ b.seek_target # -1
           f == IF seeks THEN Min(b.seek_target, b.total_frames) ELSE b.frames_fed
           r == IF seeks THEN 0 ELSE b.ring
           g == IF seeks THEN -1 ELSE b.seek_target
           written == Min(Min(ChunkFrames, b.total_frames - f), RingCapacity - r)
       IN IF f >= b.total_frames
          THEN /\ FeederDrain(f, r, g)
               /\ UNCHANGED <<playerVars, error_reports>>
          ELSE IF r * 100 > BUFFER_HIGH_WATER_PCT * RingCapacity
          THEN /\ backend' = [b EXCEPT !.frames_fed = f, !.ring = r, !.seek_target = g]
               /\ ev' = NoEvent
               /\ UNCHANGED <<playerVars, error_reports, tasks, running>>
          ELSE IF b.audio = 0
          THEN \* _audio_data is None: the except branch of the loop
               /\ backend' = [b EXCEPT !.frames_fed = f, !.ring = r, !.seek_target = g,
                                       !.feeding = "none", !.state = "error"]
               /\ state' = "error"
               /\ error_reports' = Min(error_reports + 1, MaxErrorReports)
               /\ ev' = [kind |-> "feed_error"]
               /\ UNCHANGED <<current_track, current_duration_ms, position_value_ms,
                              position_timestamp_ms, tasks, running>>
          ELSE /\ backend' = [b EXCEPT !.frames_fed = f + written, !.ring = r + written,
                                       !.seek_target = g]
               /\ position_value_ms' = FramesToMs(f + written)
               /\ position_timestamp_ms' = now
               /\ ev' = IF state = "paused"
                        THEN [kind |-> "feed_paused", value |-> position_value_ms]
                        ELSE NoEvent
               /\ UNCHANGED <<state, current_track, current_duration_ms, error_reports,
                              tasks, running>>
    /\ UNCHANGED <<heap, next_track_info, queueVars, now, last_set_state_had_next,
                   received>>
    /\ Silent

\* a turn of the drain loop once the ring buffer is empty
FeederFinish ==
    /\ running = 0
    /\ UNCHANGED nonPlayerVars
    /\ backend.feeding = "drain"
    /\ backend.ring = 0 \/ backend.state = "stopped"
    /\ FeederDrain(backend.frames_fed, backend.ring, backend.seek_target)
    /\ UNCHANGED <<playerVars, heap, next_track_info, queueVars, error_reports,
                   now, last_set_state_had_next, received>>
    /\ Silent

\* AudioOutputStream._audio_callback on the audio thread
AudioCallback ==
    /\ running = 0
    /\ UNCHANGED nonPlayerVars
    /\ backend.started
    /\ ~backend.paused
    /\ backend.ring > 0
    /\ backend' = [backend EXCEPT !.ring = @ - Min(BlockFrames, @)]
    /\ ev' = NoEvent
    /\ UNCHANGED <<playerVars, heap, next_track_info, queueVars, tasks, running,
                   error_reports, now, last_set_state_had_next, received>>
    /\ Silent

\* LocalAudioBackend.get_position
LocalGetPosition(b) == IF b.sample_rate = 0 THEN 0 ELSE FramesToMs(b.frames_fed)

\* a turn of QobuzPlayer._playback_monitor_loop while the player is playing
PlaybackMonitor ==
    /\ running = 0
    /\ UNCHANGED nonPlayerVars
    /\ state = "playing"
    /\ state' = IF backend.state = "paused" THEN "paused" ELSE state
    /\ position_value_ms' = LocalGetPosition(backend)
    /\ position_timestamp_ms' = now
    /\ IF backend.state = "paused"
       THEN Report("paused", position_value_ms, now, current_duration_ms,
                   TrackId(current_track))
       ELSE Silent
    /\ ev' = NoEvent
    /\ UNCHANGED <<current_track, current_duration_ms, heap, next_track_info,
                   queueVars, backend, tasks, running, error_reports, now,
                   last_set_state_had_next, received>>

(***************************************************************************)
(* QobuzPlayer._handle_track_ended (play_track is load_track followed by   *)
(* _start_playback, see LoadTrackUrl)                                      *)
(***************************************************************************)
TrackEnded(t) ==
    /\ CanRun(t)
    /\ UNCHANGED nonPlayerVars
    /\ tasks[t].pc = "te_begin"
    /\ IF repeat_mode = "one"
       THEN /\ backend' = LocalSeek(backend, 0)
            /\ position_value_ms' = 0
            /\ position_timestamp_ms' = now
            /\ Finish(t)
            /\ ev' = [kind |-> "te_repeat_one"]
            /\ UNCHANGED <<state, current_track, next_track_info, heap>>
            /\ Silent
       ELSE IF next_track_info # 0
       THEN /\ next_track_info' = 0
            /\ Goto(t, [tasks[t] EXCEPT !.pc = "lt_begin", !.tid = next_track_info])
            /\ ev' = [kind |-> "te_advance", next |-> next_track_info,
                      had_next |-> last_set_state_had_next]
            /\ UNCHANGED <<state, current_track, position_value_ms,
                           position_timestamp_ms, backend, heap>>
            /\ Silent
       ELSE /\ state' = "stopped"
            /\ current_track' = 0
            /\ position_value_ms' = 0
            /\ Report("stopped", 0, position_timestamp_ms, current_duration_ms, 0)
            /\ Finish(t)
            /\ ev' = [kind |-> "te_stop", had_next |-> last_set_state_had_next]
            /\ HeapAfter(heap, 0)
            /\ UNCHANGED <<position_timestamp_ms, next_track_info, backend>>
    /\ UNCHANGED <<current_duration_ms, queueVars, error_reports, now,
                   last_set_state_had_next, received>>

\* the controller's inputs, at most MaxInputs of them
Inputs ==
    \/ \E cur \in 0..(QueueLen - 1) : QueueLoad(cur)
    \/ \E m \in {"off", "one"} : SetLoopMode(m)
    \/ \E p \in SeekPositions : Seek(p)
    \/ \E cur \in 0..NumTracks, nxt \in 0..NumTracks, ps \in 0..3, pos \in {0, TickMs} :
          HandleSetState(cur, nxt, ps, pos)
    \/ HandleSetInactive

\* the continuations of the handler tasks
TaskSteps ==
    \/ \E t \in TaskIds : LoadTrackBegin(t)
    \/ \E t \in TaskIds : LoadTrackStopped(t)
    \/ \E t \in TaskIds, ok \in BOOLEAN : LoadTrackUrl(t, ok)
    \/ \E t \in TaskIds : PlayBegin(t)
    \/ \E t \in TaskIds : StartPlaybackBegin(t)
    \/ \E t \in TaskIds, ok \in BOOLEAN : StartPlaybackUrl(t, ok)
    \/ \E t \in TaskIds : StartPlaybackCancelled(t)
    \/ \E t \in TaskIds, ok \in BOOLEAN : StartPlaybackDownloaded(t, ok)

Next ==
    \/ Tick
    \/ received < MaxInputs /\ Inputs
    \/ TaskSteps
    \/ ErrorReport
    \/ \E t \in TaskIds : Pause(t)
    \/ \E t \in TaskIds : StopBegin(t)
    \/ \E t \in TaskIds : StopStopped(t)
    \/ FeederFeed
    \/ FeederFinish
    \/ AudioCallback
    \/ PlaybackMonitor
    \/ \E t \in TaskIds : TrackEnded(t)

Spec == Init /\ [][Next]_vars

\* SET_STATE messages alone, at most MaxRaceInputs of them, and the handler
\* tasks they start: the feeder gets no turn, no other input arrives
MaxRaceInputs == 3

NextRace ==
    \/ /\ received < MaxRaceInputs
       /\ \E cur \in Tracks, ps \in {0, 2} : HandleSetState(cur, 0, ps, 0)
    \/ TaskSteps

SpecRace == Init /\ [][NextRace]_vars

(***************************************************************************)
(* WsManager                                                               *)
(***************************************************************************)
\* connection attempts and send_message calls considered
MaxConnections == 2
MaxSends == 3
\* the count of ended turns of the reconnect loop stops here
MaxFails == 8
\* the quality ids considered: CD and Hi-Res 192k
Qualities == {6, 27}

INITIAL_RECONNECT_DELAY == 1
MAX_RECONNECT_DELAY == 60
RECONNECT_BACKOFF_MULTIPLIER == 2

Handshake == <<"AUTHENTICATE", "SUBSCRIBE", "JOIN_SESSION">>

\* self._ws.send(frame): the frame goes to the wire of the current connection
WsSend(kind, seq) ==
    wire' = Append(wire, [conn |-> connection, kind |-> kind, seq |-> seq])

\* a backoff that stops at the first power of two above the cap
NextDelayPastCap(d) == Min(d * RECONNECT_BACKOFF_MULTIPLIER, 64)

\* min(self._reconnect_delay * RECONNECT_BACKOFF_MULTIPLIER, MAX_RECONNECT_DELAY)
NextDelay(d) == Min(d * RECONNECT_BACKOFF_MULTIPLIER, MAX_RECONNECT_DELAY)

\* _connection_loop once _connect_and_run has returned or raised:
\* on_disconnected, the sleep of _reconnect_delay seconds, then the backoff
Backoff ==
    /\ last_wait' = reconnect_delay
    /\ reconnect_delay' = NextDelay(reconnect_delay)
    /\ fails' = Min(fails + 1, MaxFails)

\* what no step of the handshake touches
WsKeep == UNCHANGED <<send_calls, should_run, token_expired, max_audio_quality,
                      effective_quality, buffered>>

\* _connect_and_run: the connection is made, _ws is set and _authenticate
\* writes AUTHENTICATE; the task is then suspended in that send
WsConnect ==
    /\ ws_phase = "idle"
    /\ should_run
    /\ ~token_expired
    /\ connection < MaxConnections
    /\ connection' = connection + 1
    /\ broken' = FALSE
    /\ wire' = Append(wire, [conn |-> connection + 1, kind |-> Handshake[1], seq |-> 0])
    /\ ws_phase' = "authenticate"
    /\ ws_ev' = NoEvent
    /\ UNCHANGED <<is_connected, pending_messages, flush_index, reconnect_delay,
                   last_wait, fails>>
    /\ WsKeep
    /\ UNCHANGED nonWsVars

\* _connect_and_run: websockets.connect raises; the finally clause, then
\* the loop waits and backs off
WsConnectFailed ==
    /\ ws_phase = "idle"
    /\ should_run
    /\ ~token_expired
    /\ Backoff
    /\ ws_ev' = NoEvent
    /\ UNCHANGED <<ws_phase, is_connected, pending_messages, flush_index, broken,
                   connection, wire>>
    /\ WsKeep
    /\ UNCHANGED nonWsVars

\* _connect_and_run with an expired token: it logs and returns, and the
\* loop waits, backs off and comes round again
WsSkipExpired ==
    /\ ws_phase = "idle"
    /\ should_run
    /\ token_expired
    /\ Backoff
    /\ ws_ev' = [kind |-> "expired_turn"]
    /\ UNCHANGED <<ws_phase, is_connected, pending_messages, flush_index, broken,
                   connection, wire>>
    /\ WsKeep
    /\ UNCHANGED nonWsVars

\* _subscribe writes SUBSCRIBE
WsSubscribe ==
    /\ ws_phase = "authenticate"
    /\ ~broken
    /\ WsSend(Handshake[2], 0)
    /\ ws_phase' = "subscribe"
    /\ ws_ev' = NoEvent
    /\ UNCHANGED <<is_connected, pending_messages, flush_index, broken, connection,
                   reconnect_delay, last_wait, fails>>
    /\ WsKeep
    /\ UNCHANGED nonWsVars

\* _send_join_session writes the JoinSession payload, which carries
\* self._max_audio_quality
WsJoinSession ==
    /\ ws_phase = "subscribe"
    /\ ~broken
    /\ WsSend(Handshake[3], 0)
    /\ ws_phase' = "join"
    /\ ws_ev' = [kind |-> "join", quality |-> max_audio_quality]
    /\ UNCHANGED <<is_connected, pending_messages, flush_index, broken, connection,
                   reconnect_delay, last_wait, fails>>
    /\ WsKeep
    /\ UNCHANGED nonWsVars

\* the JoinSession send has returned: _is_connected = True, the backoff is
\* reset, then _flush_pending_messages up to its first send, or on to
\* _receive_loop
WsLive ==
    /\ ws_phase = "join"
    /\ ~broken
    /\ is_connected' = TRUE
    /\ reconnect_delay' = INITIAL_RECONNECT_DELAY
    /\ fails' = 0
    /\ ws_ev' = [kind |-> "live"]
    /\ IF pending_messages = <<>>
       THEN /\ ws_phase' = "receive"
            /\ UNCHANGED <<flush_index, wire>>
       ELSE /\ WsSend("DATA", pending_messages[1])
            /\ flush_index' = 1
            /\ ws_phase' = "flush"
    /\ UNCHANGED <<pending_messages, broken, connection, last_wait>>
    /\ WsKeep
    /\ UNCHANGED nonWsVars

\* _flush_pending_messages: the next turn of the for loop over the list as
\* it is now, and after the last one _pending_messages.clear()
WsFlushNext ==
    /\ ws_phase = "flush"
    /\ ~broken
    /\ ws_ev' = NoEvent
    /\ IF flush_index < Len(pending_messages)
       THEN /\ WsSend("DATA", pending_messages[flush_index + 1])
            /\ flush_index' = flush_index + 1
            /\ UNCHANGED <<ws_phase, pending_messages>>
       ELSE /\ pending_messages' = <<>>
            /\ flush_index' = 0
            /\ ws_phase' = "receive"
            /\ UNCHANGED wire
    /\ UNCHANGED <<is_connected, broken, connection, reconnect_delay, last_wait, fails>>
    /\ WsKeep
    /\ UNCHANGED nonWsVars

\* the peer closes the connection; the session has not noticed yet
WsBreak ==
    /\ ws_phase \notin {"idle", "stopped"}
    /\ ~broken
    /\ broken' = TRUE
    /\ ws_ev' = NoEvent
    /\ UNCHANGED <<ws_phase, is_connected, pending_messages, flush_index, connection,
                   wire, reconnect_delay, last_wait, fails>>
    /\ WsKeep
    /\ UNCHANGED nonWsVars

\* the finally clause of _connect_and_run, then the loop waits and backs off
Disconnect ==
    /\ flush_index' = 0
    /\ is_connected' = FALSE
    /\ ws_phase' = "idle"
    /\ Backoff

\* the pending send or recv raises: a flush in progress logs the failure of
\* each remaining frame and clears the list; then the connection is given up
WsDrop ==
    /\ ws_phase \notin {"idle", "stopped"}
    /\ broken
    /\ pending_messages' = IF ws_phase = "flush" THEN <<>> ELSE pending_messages
    /\ Disconnect
    /\ ws_ev' = NoEvent
    /\ UNCHANGED <<broken, connection, wire>>
    /\ WsKeep
    /\ UNCHANGED nonWsVars

\* _receive_loop: a recv times out and the token is found to expire within
\* TOKEN_REFRESH_BUFFER: the loop is left and the connection given up
WsReceiveExpired ==
    /\ ws_phase = "receive"
    /\ ~broken
    /\ token_expired
    /\ Disconnect
    /\ ws_ev' = NoEvent
    /\ UNCHANGED <<pending_messages, broken, connection, wire>>
    /\ WsKeep
    /\ UNCHANGED nonWsVars

\* time passes the expiry of the token
TokenExpire ==
    /\ ~token_expired
    /\ token_expired' = TRUE
    /\ ws_ev' = NoEvent
    /\ UNCHANGED <<ws_phase, is_connected, pending_messages, flush_index, broken,
                   connection, wire, send_calls, should_run, reconnect_delay,
                   max_audio_quality, effective_quality, last_wait, fails, buffered>>
    /\ UNCHANGED nonWsVars

\* QobuzProxy._on_quality_change(q), called for a SET_MAX_AUDIO_QUALITY
\* message the live session received
OnQualityChange(q) ==
    /\ ws_phase = "receive"
    /\ ~broken
    /\ q # effective_quality
    /\ effective_quality' = q
    /\ ws_ev' = NoEvent
    /\ UNCHANGED <<ws_phase, is_connected, pending_messages, flush_index, broken,
                   connection, wire, send_calls, should_run, token_expired,
                   reconnect_delay, max_audio_quality, last_wait, fails, buffered>>
    /\ UNCHANGED nonWsVars

\* stop(): _should_run = False, the socket is closed and the loop's task
\* cancelled, which runs the finally clause of _connect_and_run
WsStop ==
    /\ should_run
    /\ should_run' = FALSE
    /\ ws_phase' = "stopped"
    /\ is_connected' = FALSE
    /\ flush_index' = 0
    /\ ws_ev' = NoEvent
    /\ UNCHANGED <<pending_messages, broken, connection, wire, send_calls,
                   token_expired, reconnect_delay, max_audio_quality,
                   effective_quality, last_wait, fails, buffered>>
    /\ UNCHANGED nonWsVars

\* a send_message that writes whenever there is a socket
SendMessageWhenOpen ==
    /\ send_calls < MaxSends
    /\ send_calls' = send_calls + 1
    /\ ws_ev' = NoEvent
    /\ IF ws_phase \notin {"idle", "stopped"} /\ ~broken
       THEN /\ WsSend("DATA", send_calls + 1)
            /\ UNCHANGED <<pending_messages, buffered>>
       ELSE /\ pending_messages' = Append(pending_messages, send_calls + 1)
            /\ buffered' = IF is_connected THEN buffered
                            ELSE buffered \cup {send_calls + 1}
            /\ UNCHANGED wire
    /\ UNCHANGED <<ws_phase, is_connected, flush_index, broken, connection,
                   should_run, token_expired, reconnect_delay, max_audio_quality,
                   effective_quality, last_wait, fails>>
    /\ UNCHANGED nonWsVars

\* send_message(data), data being the frame of the send_calls + 1st call
SendMessage ==
    /\ send_calls < MaxSends
    /\ send_calls' = send_calls + 1
    /\ ws_ev' = NoEvent
    /\ IF ws_phase \notin {"idle", "stopped"} /\ is_connected /\ ~broken
       THEN /\ WsSend("DATA", send_calls + 1)
            /\ UNCHANGED <<pending_messages, buffered>>
       ELSE /\ pending_messages' = Append(pending_messages, send_calls + 1)
            /\ buffered' = IF is_connected THEN buffered
                            ELSE buffered \cup {send_calls + 1}
            /\ UNCHANGED wire
    /\ UNCHANGED <<ws_phase, is_connected, flush_index, broken, connection,
                   should_run, token_expired, reconnect_delay, max_audio_quality,
                   effective_quality, last_wait, fails>>
    /\ UNCHANGED nonWsVars

NextWs ==
    \/ WsConnect
    \/ WsConnectFailed
    \/ WsSkipExpired
    \/ WsSubscribe
    \/ WsJoinSession
    \/ WsLive
    \/ WsFlushNext
    \/ WsBreak
    \/ WsDrop
    \/ WsReceiveExpired
    \/ TokenExpire
    \/ \E q \in Qualities : OnQualityChange(q)
    \/ WsStop
    \/ SendMessage

SpecWs == Init /\ [][NextWs]_vars

(***************************************************************************)
(* ProtocolCodec                                                           *)
(***************************************************************************)
\* encode calls considered, and the longest frame handed to decode_frame
MaxEncodes == 3
MaxFrameLen == 3
\* the byte values considered: 0, the type codes 1 (AUTHENTICATE), 2
\* (SUBSCRIBE), 6 (PAYLOAD), the unknown type 7, and 129, a varint byte
\* with the continuation bit set
Bytes == {0, 1, 2, 6, 7, 129}
MessageTypes == {1, 2, 3, 6, 9, 10}

Frames == UNION {[1..n -> Bytes] : n \in 0..MaxFrameLen}

\* _decode_varint(data, start), start counted from 0: <<value, next offset>>,
\* <<-1, -1>> when the data end inside the varint
RECURSIVE VarintFrom(_, _, _, _)
VarintFrom(data, offset, value, scale) ==
    IF offset >= Len(data) THEN <<-1, -1>>
    ELSE LET byte == data[offset + 1]
             v == value + (byte % 128) * scale
         IN IF byte < 128 THEN <<v, offset + 1>>
            ELSE VarintFrom(data, offset + 1, v, scale * 128)

DecodeVarint(data, start) == VarintFrom(data, start, 0, 1)

\* data[a : b] of Python: the bytes there are, no error when b is past the end
Slice(data, a, b) == SubSeq(data, a + 1, Min(b, Len(data)))

None == [none |-> TRUE]

\* _decode_by_type: a DecodedMessage is returned whatever the parse gave
DecodeByType(msg_type, payload) == [msg_type |-> msg_type, payload |-> payload]

\* decode_frame(data)
DecodeFrame(data) ==
    IF Len(data) < 2 THEN None
    ELSE IF data[1] \notin MessageTypes THEN None
    ELSE LET lo == DecodeVarint(data, 1)
         IN IF lo[2] < 0 THEN None
            ELSE DecodeByType(data[1], Slice(data, lo[2], lo[2] + lo[1]))

\* encode_authenticate, encode_subscribe, encode_payload: one message id
EncodeEnvelope ==
    /\ msg_counter < 2 * MaxEncodes
    /\ msg_counter' = msg_counter + 1
    /\ last_msg_id' = msg_counter + 1
    /\ codec_ev' = [kind |-> "encode", msg_id |-> msg_counter + 1, prev |-> last_msg_id]
    /\ UNCHANGED nonCodecVars

\* encode_state_update, encode_join_session, encode_volume_changed and the
\* like: one id for the batch, then encode_payload takes the next
EncodeBatch ==
    /\ msg_counter < 2 * MaxEncodes
    /\ msg_counter' = msg_counter + 2
    /\ last_msg_id' = msg_counter + 2
    /\ codec_ev' = [kind |-> "encode", msg_id |-> msg_counter + 2, prev |-> last_msg_id]
    /\ UNCHANGED nonCodecVars

\* decode_frame(data) for a frame received
Decode(data) ==
    /\ codec_ev' = [kind |-> "decode", data |-> data, result |-> DecodeFrame(data),
                    counter |-> msg_counter]
    /\ UNCHANGED <<msg_counter, last_msg_id>>
    /\ UNCHANGED nonCodecVars

NextCodec ==
    \/ EncodeEnvelope
    \/ EncodeBatch
    \/ \E data \in Frames : Decode(data)

SpecCodec == Init /\ [][NextCodec]_vars

(***************************************************************************)
(* DiscoveryService                                                        *)
(***************************************************************************)
\* POSTs and sessions considered
MaxPosts == 4
NumSessions == 3

\* _handle_connect for a POST whose tokens name session sid; invalid tokens
\* are answered 400 and nothing is stored.  on_connect is
\* app._on_app_connected, which schedules _setup_websocket(tokens).
HandleConnect(sid, valid) ==
    /\ posts < MaxPosts
    /\ posts' = posts + 1
    /\ IF valid
       THEN /\ received_tokens' = sid
            /\ current_session_id' = sid
            /\ on_connect_calls' = on_connect_calls + 1
            /\ setup_tasks' = Append(setup_tasks, sid)
            /\ disc_ev' = [kind |-> "connect", status |-> 200, session |-> sid]
       ELSE /\ UNCHANGED <<received_tokens, current_session_id,
                           on_connect_calls, setup_tasks>>
            /\ disc_ev' = [kind |-> "connect", status |-> 400, session |-> sid]
    /\ UNCHANGED <<app_ws_manager, connection_loops, nonDiscVars>>

\* _handle_connect_info: GET /streamcore/get-connect-info
HandleConnectInfo ==
    /\ disc_ev' = [kind |-> "connect_info", status |-> 200,
                   session |-> current_session_id]
    /\ UNCHANGED <<received_tokens, current_session_id, on_connect_calls,
                   posts, setup_tasks, app_ws_manager, connection_loops, nonDiscVars>>

\* the scheduled _setup_websocket task runs: a new WsManager with the
\* tokens of its POST replaces app._ws_manager and is started; start()
\* creates its _connection_loop task, which runs until that manager's stop()
SetupWebsocket ==
    /\ setup_tasks # <<>>
    /\ app_ws_manager' = Head(setup_tasks)
    /\ connection_loops' = Append(connection_loops, Head(setup_tasks))
    /\ setup_tasks' = Tail(setup_tasks)
    /\ UNCHANGED <<received_tokens, current_session_id, on_connect_calls,
                   posts, disc_ev, nonDiscVars>>

NextDiscovery ==
    \/ \E sid \in 1..NumSessions, valid \in BOOLEAN : HandleConnect(sid, valid)
    \/ HandleConnectInfo
    \/ SetupWebsocket

SpecDiscovery == Init /\ [][NextDiscovery]_vars

(***************************************************************************)
(* QobuzQueue: shuffle, navigation and preload.  Lists are functions on    *)
(* 0..n-1 so that indexes read as in the source.  Every method runs under  *)
(* the queue's lock without awaiting inside it, so each is one step; the   *)
(* fetches of _preload_upcoming run outside the lock, one step per track.  *)
(***************************************************************************)
\* tracks per queue, and load_queue/clear calls considered
MaxQueueLen == 2
MaxLoads == 2
PRELOAD_COUNT == 3
RepeatModes == {"off", "one", "all"}
FetchResults == {"ok", "none", "raise"}

QLen == Cardinality(DOMAIN q_tracks)
Identity(n) == [i \in 0..(n - 1) |-> i]
\* the outcomes of random.shuffle on list(range(n))
ShuffleOutcomes(n) == {f \in [0..(n - 1) -> 0..(n - 1)] : Range(f) = 0..(n - 1)}
\* list.index: the first position holding v
IndexOf(indexes, v) ==
    CHOOSE i \in DOMAIN indexes :
        /\ indexes[i] = v
        /\ \A j \in DOMAIN indexes : indexes[j] = v => i <= j
\* the loop of _set_index_by_item_id and _apply_shuffle: index of the first
\* track with this id, -1 is None
TrackIndexOf(tracks, id) ==
    IF \E i \in DOMAIN tracks : tracks[i].queue_item_id = id
    THEN CHOOSE i \in DOMAIN tracks :
            /\ tracks[i].queue_item_id = id
            /\ \A j \in DOMAIN tracks : tracks[j].queue_item_id = id => i <= j
    ELSE -1

\* _get_current_track_index, -1 is None
GetCurrentTrackIndex ==
    IF QLen = 0 \/ DOMAIN shuffled_indexes = {} THEN -1
    ELSE IF q_current_index >= Cardinality(DOMAIN shuffled_indexes) THEN -1
    ELSE shuffled_indexes[q_current_index]
\* queue_item_id of _get_current_track, 0 is None
CurrentItemId ==
    IF GetCurrentTrackIndex = -1 THEN 0
    ELSE q_tracks[GetCurrentTrackIndex].queue_item_id

\* _invalidate_stale_preloads for the given order and cursor
InvalidateStalePreloads(tracks, indexes, cur, preloaded) ==
    LET expected_ids == {tracks[indexes[idx]].queue_item_id :
                            idx \in {j \in DOMAIN indexes :
                                        cur <= j /\ j <= cur + PRELOAD_COUNT}}
    IN preloaded \cap expected_ids

\* load_queue(tracks, version, current_item_id): the tracks carry the item
\* ids 1..n (unique within a queue); cur = 0 is current_item_id None
LoadQueue(n, cur) ==
    /\ q_loads < MaxLoads
    /\ q_loads' = q_loads + 1
    /\ q_tracks' = [i \in 0..(n - 1) |->
                      [queue_item_id |-> i + 1, metadata |-> FALSE,
                       streaming_url |-> FALSE, load |-> q_loads + 1]]
    /\ shuffled_indexes' = Identity(n)
    /\ preloaded_ids' = {}
    /\ q_current_index' =
            IF cur # 0 /\ TrackIndexOf(q_tracks', cur) # -1
            THEN IndexOf(shuffled_indexes', TrackIndexOf(q_tracks', cur))
            ELSE 0
    /\ q_ev' = [kind |-> "load"]
    /\ UNCHANGED <<shuffle_enabled, q_repeat_mode, to_preload, nonQueueVars>>

\* clear
QueueClear ==
    /\ q_loads < MaxLoads
    /\ q_loads' = q_loads + 1
    /\ q_tracks' = <<>>
    /\ shuffled_indexes' = <<>>
    /\ preloaded_ids' = {}
    /\ q_current_index' = 0
    /\ q_ev' = [kind |-> "clear"]
    /\ UNCHANGED <<shuffle_enabled, q_repeat_mode, to_preload, nonQueueVars>>

\* set_current_by_item_id
SetCurrentByItemId(id) ==
    /\ QLen > 0
    /\ LET track_index == TrackIndexOf(q_tracks, id) IN
       IF track_index = -1 \/ track_index \notin Range(shuffled_indexes)
       THEN UNCHANGED <<q_current_index, preloaded_ids>>
       ELSE /\ q_current_index' = IndexOf(shuffled_indexes, track_index)
            /\ preloaded_ids' = InvalidateStalePreloads(q_tracks,
                   shuffled_indexes, q_current_index', preloaded_ids)
    /\ q_ev' = [kind |-> "set_current"]
    /\ UNCHANGED <<q_tracks, shuffled_indexes, shuffle_enabled, q_repeat_mode,
                   to_preload, q_loads, nonQueueVars>>

\* the swap of _apply_shuffle that overwrites only the cursor's slot
CopyAt(indexes, a, b) == [indexes EXCEPT ![a] = indexes[b]]
\* indexes[a], indexes[b] = indexes[b], indexes[a]
SwapAt(indexes, a, b) == [indexes EXCEPT ![a] = indexes[b], ![b] = indexes[a]]

\* _apply_shuffle: the order after random.shuffle gave perm; pivot 0 is None
ApplyShuffle(perm, pivot) ==
    LET pivot_track_index == IF pivot = 0 THEN -1
                             ELSE TrackIndexOf(q_tracks, pivot)
        n == Cardinality(DOMAIN perm)
    IN IF pivot_track_index = -1 THEN perm
       ELSE SwapAt(perm, IF q_current_index < n - 1 THEN q_current_index
                         ELSE n - 1,
                   IndexOf(perm, pivot_track_index))

\* a restore that leaves the cursor where it was
KeptCurrentIndex == q_current_index
\* _restore_original_order: the cursor in the identity order
RestoredCurrentIndex ==
    IF GetCurrentTrackIndex = -1 THEN q_current_index
    ELSE IF GetCurrentTrackIndex \in 0..(QLen - 1)
         THEN IndexOf(Identity(QLen), GetCurrentTrackIndex)
         ELSE 0

\* set_shuffle(enabled, pivot_item_id)
SetShuffle(enabled, pivot) ==
    /\ shuffle_enabled' = enabled
    /\ IF enabled
       THEN IF QLen = 0
            THEN UNCHANGED <<shuffled_indexes, q_current_index>>
            ELSE /\ \E perm \in ShuffleOutcomes(QLen) :
                        shuffled_indexes' = ApplyShuffle(perm, pivot)
                 /\ UNCHANGED q_current_index
       ELSE /\ shuffled_indexes' = Identity(QLen)
            /\ q_current_index' = RestoredCurrentIndex
    /\ preloaded_ids' = {}
    /\ q_ev' = [kind |-> "shuffle", enabled |-> enabled,
                pivot_is_current |-> (pivot # 0 /\ pivot = CurrentItemId),
                before |-> CurrentItemId, index_before |-> q_current_index,
                pivot |-> pivot]
    /\ UNCHANGED <<q_tracks, q_repeat_mode, to_preload, q_loads, nonQueueVars>>

\* _handle_set_shuffle_mode -> QobuzPlayer.set_shuffle_mode: the queue is
\* called without a pivot
HandleSetShuffleMode(shuffle_on) == SetShuffle(shuffle_on, 0)

\* set_repeat_mode
QueueSetRepeatMode(mode) ==
    /\ q_repeat_mode' = mode
    /\ q_ev' = [kind |-> "repeat"]
    /\ UNCHANGED <<q_tracks, shuffled_indexes, q_current_index, shuffle_enabled,
                   preloaded_ids, to_preload, q_loads, nonQueueVars>>

\* advance_to_next
QueueAdvanceToNext ==
    /\ QLen > 0
    /\ q_current_index' =
          IF q_repeat_mode = "one" THEN q_current_index
          ELSE IF q_current_index + 1 >= Cardinality(DOMAIN shuffled_indexes)
               THEN IF q_repeat_mode = "all" THEN 0 ELSE q_current_index
               ELSE q_current_index + 1
    /\ q_ev' = [kind |-> "advance"]
    /\ UNCHANGED <<q_tracks, shuffled_indexes, shuffle_enabled, q_repeat_mode,
                   preloaded_ids, to_preload, q_loads, nonQueueVars>>

\* go_to_previous
QueueGoToPrevious ==
    /\ QLen > 0
    /\ q_current_index' =
          IF q_repeat_mode = "one" THEN q_current_index
          ELSE IF q_current_index > 0 THEN q_current_index - 1
          ELSE IF q_repeat_mode = "all"
               THEN Cardinality(DOMAIN shuffled_indexes) - 1
               ELSE q_current_index
    /\ q_ev' = [kind |-> "previous"]
    /\ UNCHANGED <<q_tracks, shuffled_indexes, shuffle_enabled, q_repeat_mode,
                   preloaded_ids, to_preload, q_loads, nonQueueVars>>

\* the positions _preload_upcoming looks at whose track is not marked
RECURSIVE Collect(_)
Collect(i) ==
    IF i >= PRELOAD_COUNT \/ q_current_index + i \notin DOMAIN shuffled_indexes
    THEN <<>>
    ELSE LET track_index == shuffled_indexes[q_current_index + i]
             track == q_tracks[track_index]
         IN (IF track.queue_item_id \in preloaded_ids THEN <<>>
             ELSE <<[index |-> track_index, load |-> track.load,
                     queue_item_id |-> track.queue_item_id]>>)
            \o Collect(i + 1)

\* a tick of _preload_loop: the locked part of _preload_upcoming collects
\* the tracks to fetch
PreloadCollect ==
    /\ to_preload = <<>>
    /\ to_preload' = Collect(0)
    /\ q_ev' = [kind |-> "tick"]
    /\ UNCHANGED <<q_tracks, shuffled_indexes, q_current_index, shuffle_enabled,
                   q_repeat_mode, preloaded_ids, q_loads, nonQueueVars>>

\* the track object held by _preload_upcoming is still in the queue
Held(ref) ==
    /\ ref.index \in DOMAIN q_tracks
    /\ q_tracks[ref.index].load = ref.load

\* the body of the loop of _preload_upcoming for one track: the metadata
\* callback returns mres and the URL callback ures; a callback is awaited
\* only for a field the track lacks, and "raise" is an exception, which
\* skips the mark
PreloadTrack(mres, ures) ==
    /\ to_preload # <<>>
    /\ LET ref == Head(to_preload)
           held == Held(ref)
           had_metadata == held /\ q_tracks[ref.index].metadata
           had_url == held /\ q_tracks[ref.index].streaming_url
           metadata == had_metadata \/ mres = "ok"
           raised_m == ~had_metadata /\ mres = "raise"
           streaming_url == had_url \/ (~raised_m /\ ures = "ok")
           raised == raised_m \/ (~had_url /\ ures = "raise")
       IN /\ q_tracks' = IF held
                         THEN [q_tracks EXCEPT ![ref.index] =
                                 [@ EXCEPT !.metadata = metadata,
                                           !.streaming_url = streaming_url]]
                         ELSE q_tracks
          /\ preloaded_ids' = IF raised THEN preloaded_ids
                              ELSE preloaded_ids \cup {ref.queue_item_id}
          /\ q_ev' = [kind |-> "preload", item |-> ref.queue_item_id,
                      held |-> held,
                      failed |-> (~metadata \/ ~streaming_url)]
    /\ to_preload' = Tail(to_preload)
    /\ UNCHANGED <<shuffled_indexes, q_current_index, shuffle_enabled,
                   q_repeat_mode, q_loads, nonQueueVars>>

NextQueue ==
    \/ \E n \in 0..MaxQueueLen, cur \in 0..MaxQueueLen : LoadQueue(n, cur)
    \/ QueueClear
    \/ \E id \in 1..MaxQueueLen : SetCurrentByItemId(id)
    \/ \E shuffle_on \in BOOLEAN : HandleSetShuffleMode(shuffle_on)
    \/ \E enabled \in BOOLEAN, pivot \in 1..MaxQueueLen : SetShuffle(enabled, pivot)
    \/ \E mode \in RepeatModes : QueueSetRepeatMode(mode)
    \/ QueueAdvanceToNext
    \/ QueueGoToPrevious
    \/ PreloadCollect
    \/ \E mres \in FetchResults, ures \in FetchResults : PreloadTrack(mres, ures)

SpecQueue == Init /\ [][NextQueue]_vars

(***************************************************************************)
(* StateReporter: a report is built from the player, handed to             *)
(* app._send_state_report and encoded by ProtocolCodec.encode_state_update. *)
(* The awaits between the build and the encoding let time pass and let     *)
(* the player change.                                                      *)
(***************************************************************************)
\* clock values and positions considered
SrMaxNow == 3
SrMaxPosition == 2
PlaybackStates == {"stopped", "playing", "paused", "loading", "error"}

\* time passes
SrTick ==
    /\ sr_now < SrMaxNow
    /\ sr_now' = sr_now + 1
    /\ UNCHANGED <<sr_state, sr_position_value_ms, sr_position_timestamp_ms,
                   sr_report, sr_wire, nonReportVars>>

\* player._set_position(position_ms)
SrSetPosition(position_ms) ==
    /\ sr_position_value_ms' = position_ms
    /\ sr_position_timestamp_ms' = sr_now
    /\ UNCHANGED <<sr_state, sr_now, sr_report, sr_wire, nonReportVars>>

\* the player changes state
SrSetState(st) ==
    /\ sr_state' = st
    /\ UNCHANGED <<sr_position_value_ms, sr_position_timestamp_ms, sr_now,
                   sr_report, sr_wire, nonReportVars>>

\* StateReporter._build_state_report: the anchor while playing, the frozen
\* position stamped with the present time otherwise
BuildStateReport ==
    /\ sr_report = NoStateReport
    /\ sr_report' =
         [playing_state |-> sr_state,
          timestamp |-> IF sr_state = "playing" THEN sr_position_timestamp_ms
                        ELSE sr_now,
          value |-> sr_position_value_ms,
          anchor_timestamp |-> sr_position_timestamp_ms]
    /\ UNCHANGED <<sr_state, sr_position_value_ms, sr_position_timestamp_ms,
                   sr_now, sr_wire, nonReportVars>>

\* the timestamp encode_state_update writes for a report: position.timestamp
\* is the codec's clock, the report's own timestamp is not passed on
WireTimestamp(report) == sr_now

\* app._send_state_report, WsManager.send_state_update and
\* ProtocolCodec.encode_state_update: loading and error go out as stopped
SendStateReport ==
    /\ sr_report # NoStateReport
    /\ sr_wire' =
         [playing_state |-> IF sr_report.playing_state \in {"loading", "error"}
                            THEN "stopped" ELSE sr_report.playing_state,
          timestamp |-> WireTimestamp(sr_report),
          value |-> sr_report.value,
          anchor_timestamp |-> sr_report.timestamp]
    /\ sr_report' = NoStateReport
    /\ UNCHANGED <<sr_state, sr_position_value_ms, sr_position_timestamp_ms,
                   sr_now, nonReportVars>>

NextReport ==
    \/ SrTick
    \/ \E position_ms \in 0..SrMaxPosition : SrSetPosition(position_ms)
    \/ \E st \in PlaybackStates : SrSetState(st)
    \/ BuildStateReport
    \/ SendStateReport

SpecReport == Init /\ [][NextReport]_vars

(***************************************************************************)
(* Volume: QobuzPlayer.set_volume -> DLNABackend.set_volume ->             *)
(* DLNAClient.set_volume with its debounce.  Every SET_VOLUME message is   *)
(* handled in a task of its own, so calls overlap; a call is suspended     *)
(* only while it waits for _volume_lock or for the SOAP answer.            *)
(* fixed_volume is off.                                                    *)
(***************************************************************************)
\* the clock moves in steps of VolTickMs, MaxVolTicks times
VolTickMs == 100
MaxVolTicks == 4
MaxVolNow == VOLUME_MIN_INTERVAL_MS + MaxVolTicks * VolTickMs
\* the task id of _send_pending_volume in the lock's queue
DebounceId == NVolCalls + 1
\* the levels the k-th request may carry
VolLevels(k) == {29 + k, -5, 150}

\* max(0, min(100, level))
ClampVolume(level) == Max(0, Min(100, level))

\* the end of `async with self._volume_lock`: the first waiter gets the lock
VolRelease ==
    IF volume_waiters = <<>>
    THEN volume_lock' = 0 /\ UNCHANGED volume_waiters
    ELSE volume_lock' = Head(volume_waiters) /\ volume_waiters' = Tail(volume_waiters)

\* player.set_volume after backend.set_volume returned: cache and report
PlayerReturn(c, rec) ==
    /\ backend_volume' = ClampVolume(rec.level)
    /\ player_volume' = ClampVolume(rec.level)
    /\ volume_reports' = Append(volume_reports, player_volume')
    /\ vol_calls' = [vol_calls EXCEPT ![c] = [rec EXCEPT !.pc = "done"]]
    /\ vol_ev' = [kind |-> "set_volume", call |-> c, level |-> rec.level,
                  raised |-> FALSE]

\* an exception leaves client.set_volume: neither backend nor player cache
\* the level and nothing is reported
PlayerRaise(c, rec) ==
    /\ UNCHANGED <<backend_volume, player_volume, volume_reports>>
    /\ vol_calls' = [vol_calls EXCEPT ![c] = [rec EXCEPT !.pc = "done"]]
    /\ vol_ev' = [kind |-> "set_volume", call |-> c, level |-> rec.level,
                  raised |-> TRUE]

\* _do_set_volume up to its await: the SOAP SetVolume goes out
DoSetVolume(volume) ==
    /\ last_volume_time_ms' = vol_now
    /\ soap_sends' = Append(soap_sends, volume)

\* the body of `async with self._volume_lock` in DLNAClient.set_volume for
\* call c.  In the quiet window the value is kept as pending; the debug
\* line then formats delay_ms, which is bound only when this call created
\* the debounce task, so with a task alive the call raises.
ClientLocked(c, rec) ==
    LET elapsed == vol_now - last_volume_time_ms
        volume == ClampVolume(rec.level)
    IN IF elapsed < VOLUME_MIN_INTERVAL_MS
       THEN /\ pending_volume' = volume
            /\ UNCHANGED <<last_volume_time_ms, soap_sends>>
            /\ IF volume_lock = c THEN VolRelease
               ELSE UNCHANGED <<volume_lock, volume_waiters>>
            /\ IF volume_debounce_task.st \in {"none", "done"}
               THEN /\ volume_debounce_task' =
                          [st |-> "sleeping",
                           wake |-> vol_now + (VOLUME_MIN_INTERVAL_MS - elapsed)]
                    /\ PlayerReturn(c, rec)
               ELSE /\ UNCHANGED volume_debounce_task
                    /\ PlayerRaise(c, rec)
       ELSE /\ pending_volume' = -1
            /\ DoSetVolume(volume)
            /\ volume_lock' = c
            /\ UNCHANGED <<volume_waiters, volume_debounce_task, backend_volume,
                           player_volume, volume_reports, vol_ev>>
            /\ vol_calls' = [vol_calls EXCEPT ![c] = [rec EXCEPT !.pc = "soap"]]

\* a SET_VOLUME message arrives: player.set_volume(level) runs up to its
\* first suspension
SetVolume(c, level) ==
    /\ vol_calls[c].pc = "new"
    /\ c > 1 => vol_calls[c - 1].pc # "new"
    /\ LET rec == [pc |-> "new", level |-> level, at |-> vol_now] IN
       IF volume_lock = 0 /\ volume_waiters = <<>>
       THEN ClientLocked(c, rec)
       ELSE /\ volume_waiters' = Append(volume_waiters, c)
            /\ vol_calls' = [vol_calls EXCEPT ![c] = [rec EXCEPT !.pc = "wait_lock"]]
            /\ UNCHANGED <<volume_lock, last_volume_time_ms, pending_volume,
                           volume_debounce_task, soap_sends, backend_volume,
                           player_volume, volume_reports, vol_ev>>
    /\ UNCHANGED <<vol_now, nonVolumeVars>>

\* a call that waited for the lock has it and goes on
SetVolumeLocked(c) ==
    /\ vol_calls[c].pc = "wait_lock"
    /\ volume_lock = c
    /\ ClientLocked(c, vol_calls[c])
    /\ UNCHANGED <<vol_now, nonVolumeVars>>

\* the SOAP SetVolume of call c is answered: the lock is released and
\* backend and player go on
SetVolumeAnswered(c) ==
    /\ vol_calls[c].pc = "soap"
    /\ VolRelease
    /\ PlayerReturn(c, vol_calls[c])
    /\ UNCHANGED <<vol_now, last_volume_time_ms, pending_volume,
                   volume_debounce_task, soap_sends, nonVolumeVars>>

\* the body of `async with self._volume_lock` in _send_pending_volume
PendingLocked ==
    IF pending_volume # -1
    THEN /\ DoSetVolume(pending_volume)
         /\ pending_volume' = -1
         /\ volume_lock' = DebounceId
         /\ UNCHANGED volume_waiters
         /\ volume_debounce_task' = [volume_debounce_task EXCEPT !.st = "soap"]
    ELSE /\ UNCHANGED <<last_volume_time_ms, soap_sends, pending_volume>>
         /\ IF volume_lock = DebounceId THEN VolRelease
            ELSE UNCHANGED <<volume_lock, volume_waiters>>
         /\ volume_debounce_task' = [volume_debounce_task EXCEPT !.st = "done"]

\* _send_pending_volume after its sleep
SendPendingVolume ==
    /\ volume_debounce_task.st = "sleeping"
    /\ vol_now >= volume_debounce_task.wake
    /\ IF volume_lock = 0 /\ volume_waiters = <<>>
       THEN PendingLocked
       ELSE /\ volume_waiters' = Append(volume_waiters, DebounceId)
            /\ volume_debounce_task' = [volume_debounce_task EXCEPT !.st = "wait_lock"]
            /\ UNCHANGED <<volume_lock, last_volume_time_ms, soap_sends,
                           pending_volume>>
    /\ UNCHANGED <<vol_now, vol_calls, backend_volume, player_volume,
                   volume_reports, vol_ev, nonVolumeVars>>

\* _send_pending_volume gets the lock it waited for
SendPendingLocked ==
    /\ volume_debounce_task.st = "wait_lock"
    /\ volume_lock = DebounceId
    /\ PendingLocked
    /\ UNCHANGED <<vol_now, vol_calls, backend_volume, player_volume,
                   volume_reports, vol_ev, nonVolumeVars>>

\* the SOAP SetVolume of _send_pending_volume is answered
SendPendingAnswered ==
    /\ volume_debounce_task.st = "soap"
    /\ VolRelease
    /\ volume_debounce_task' = [volume_debounce_task EXCEPT !.st = "done"]
    /\ UNCHANGED <<vol_now, vol_calls, last_volume_time_ms, pending_volume,
                   soap_sends, backend_volume, player_volume, volume_reports,
                   vol_ev, nonVolumeVars>>

\* a task that can run now: the event loop runs it before time goes on
VolReady ==
    \/ \E c \in 1..NVolCalls : vol_calls[c].pc = "wait_lock" /\ volume_lock = c
    \/ volume_debounce_task.st = "wait_lock" /\ volume_lock = DebounceId
    \/ volume_debounce_task.st = "sleeping" /\ vol_now >= volume_debounce_task.wake

\* time passes
VolTick ==
    /\ ~VolReady
    /\ vol_now < MaxVolNow
    /\ vol_now' = vol_now + VolTickMs
    /\ UNCHANGED <<vol_calls, volume_lock, volume_waiters, last_volume_time_ms,
                   pending_volume, volume_debounce_task, soap_sends,
                   backend_volume, player_volume, volume_reports, vol_ev,
                   nonVolumeVars>>

NextVolume ==
    \/ \E c \in 1..NVolCalls : \E level \in VolLevels(c) : SetVolume(c, level)
    \/ \E c \in 1..NVolCalls : SetVolumeLocked(c)
    \/ \E c \in 1..NVolCalls : SetVolumeAnswered(c)
    \/ SendPendingVolume
    \/ SendPendingLocked
    \/ SendPendingAnswered
    \/ VolTick

SpecVolume == Init /\ [][NextVolume]_vars

(***************************************************************************)
(* DLNABackend: the transport commands of the player and _poll_state_loop. *)
(* Both are asyncio tasks; each is suspended while its SOAP call is in     *)
(* flight, and DLNAClient._soap_action posts without taking any lock.      *)
(***************************************************************************)
\* seconds the clock moves, and track_ended events counted
MaxDlTicks == 6
MaxTrackEnded == 2
MaxDlNow == PLAYBACK_START_GRACE_PERIOD_SECONDS + MaxDlTicks
DeviceStates == {"STOPPED", "PLAYING", "PAUSED_PLAYBACK", "TRANSITIONING"}
AVTransport == "AVTransport"

SoapCall(by, action) == [by |-> by, service |-> AVTransport, action |-> action]

\* DLNABackend.get_state: the PlaybackState for a CurrentTransportState
MapTransportState(state_str) ==
    CASE state_str = "PLAYING" -> "playing"
      [] state_str = "PAUSED_PLAYBACK" -> "paused"
      [] state_str = "TRANSITIONING" -> "loading"
      [] OTHER -> "stopped"

\* the renderer changes state on its own
DeviceChange(s) ==
    /\ device_state' = s
    /\ s # device_state
    /\ stopped_by' = IF s = "STOPPED" THEN "itself" ELSE "none"
    /\ UNCHANGED <<dl_now, dl_state, playback_started_at, in_flight, poll,
                   dl_command, dl_last_command, track_ended, dl_ev, nonDlnaVars>>

\* the renderer carries out the Stop the player has in flight
DeviceStop ==
    /\ SoapCall("player", "Stop") \in in_flight
    /\ device_state # "STOPPED"
    /\ device_state' = "STOPPED"
    /\ stopped_by' = "command"
    /\ UNCHANGED <<dl_now, dl_state, playback_started_at, in_flight, poll,
                   dl_command, dl_last_command, track_ended, dl_ev, nonDlnaVars>>

\* time passes; a sleep that is over ends before the clock goes on
DlTick ==
    /\ dl_now < MaxDlNow
    /\ ~(poll.pc = "sleep" /\ dl_now >= poll.wake)
    /\ dl_now' = dl_now + 1
    /\ UNCHANGED <<dl_state, playback_started_at, device_state, stopped_by, in_flight, poll,
                   dl_command, dl_last_command, track_ended, dl_ev, nonDlnaVars>>

\* play(url, metadata) up to the SetAVTransportURI call
DlPlay ==
    /\ dl_command = "idle"
    /\ dl_command' = "set_uri"
    /\ in_flight' = in_flight \cup {SoapCall("player", "SetAVTransportURI")}
    /\ UNCHANGED <<dl_now, dl_state, playback_started_at, device_state, stopped_by, poll,
                   dl_last_command, track_ended, dl_ev, nonDlnaVars>>

\* SetAVTransportURI is answered: Play goes out, or the error is notified
DlSetUriAnswered(ok) ==
    /\ dl_command = "set_uri"
    /\ IF ok
       THEN /\ dl_command' = "play"
            /\ in_flight' = (in_flight \ {SoapCall("player", "SetAVTransportURI")})
                               \cup {SoapCall("player", "Play")}
       ELSE /\ dl_command' = "idle"
            /\ in_flight' = in_flight \ {SoapCall("player", "SetAVTransportURI")}
    /\ UNCHANGED <<dl_now, dl_state, playback_started_at, device_state, stopped_by, poll,
                   dl_last_command, track_ended, dl_ev, nonDlnaVars>>

\* Play is answered: the grace period starts and the state is PLAYING
DlPlayAnswered(ok) ==
    /\ dl_command = "play"
    /\ dl_command' = "idle"
    /\ in_flight' = in_flight \ {SoapCall("player", "Play")}
    /\ IF ok
       THEN /\ playback_started_at' = dl_now
            /\ dl_state' = "playing"
            /\ dl_last_command' = "play"
       ELSE UNCHANGED <<playback_started_at, dl_state, dl_last_command>>
    /\ UNCHANGED <<dl_now, device_state, stopped_by, poll, track_ended, dl_ev, nonDlnaVars>>

\* pause() and stop() up to their SOAP call
DlCommand(cmd) ==
    /\ dl_command = "idle"
    /\ dl_command' = cmd
    /\ in_flight' = in_flight \cup
          {SoapCall("player", IF cmd = "pause" THEN "Pause" ELSE "Stop")}
    /\ UNCHANGED <<dl_now, dl_state, playback_started_at, device_state, stopped_by, poll,
                   dl_last_command, track_ended, dl_ev, nonDlnaVars>>

\* Pause or Stop is answered
DlCommandAnswered(ok) ==
    /\ dl_command \in {"pause", "stop"}
    /\ dl_command' = "idle"
    /\ in_flight' = in_flight \
          {SoapCall("player", IF dl_command = "pause" THEN "Pause" ELSE "Stop")}
    /\ IF ~ok THEN UNCHANGED <<dl_state, playback_started_at, dl_last_command>>
       ELSE IF dl_command = "pause"
       THEN /\ dl_state' = "paused"
            /\ dl_last_command' = "pause"
            /\ UNCHANGED playback_started_at
       ELSE /\ dl_state' = "stopped"
            /\ playback_started_at' = 0
            /\ dl_last_command' = "stop"
    /\ UNCHANGED <<dl_now, device_state, stopped_by, poll, track_ended, dl_ev, nonDlnaVars>>

\* _poll_state_loop after its sleep: get_state sends GetTransportInfo
PollWake ==
    /\ poll.pc = "sleep"
    /\ dl_now >= poll.wake
    /\ poll' = [poll EXCEPT !.pc = "transport_info"]
    /\ in_flight' = in_flight \cup {SoapCall("poll", "GetTransportInfo")}
    /\ UNCHANGED <<dl_now, dl_state, playback_started_at, device_state, stopped_by,
                   dl_command, dl_last_command, track_ended, dl_ev, nonDlnaVars>>

\* time.monotonic() - self._playback_started_at < PLAYBACK_START_GRACE_PERIOD_SECONDS
InGracePeriod == dl_now - playback_started_at < PLAYBACK_START_GRACE_PERIOD_SECONDS

\* GetTransportInfo is answered: the rest of the loop body up to
\* get_position or the next sleep
PollTransportInfo ==
    /\ poll.pc = "transport_info"
    /\ track_ended < MaxTrackEnded
    /\ LET new_state == MapTransportState(device_state)
           ended == dl_state = "playing" /\ new_state = "stopped"
           skip == new_state # dl_state /\ ended /\ InGracePeriod
       IN /\ dl_state' = IF skip THEN dl_state ELSE new_state
          /\ track_ended' = IF new_state # dl_state /\ ended /\ ~InGracePeriod
                            THEN track_ended + 1 ELSE track_ended
          /\ IF new_state = "playing" /\ ~skip
             THEN /\ poll' = [poll EXCEPT !.pc = "position"]
                  /\ in_flight' = (in_flight \ {SoapCall("poll", "GetTransportInfo")})
                                     \cup {SoapCall("poll", "GetPositionInfo")}
             ELSE /\ poll' = [pc |-> "sleep",
                              wake |-> dl_now + STATE_POLL_INTERVAL_SECONDS]
                  /\ in_flight' = in_flight \ {SoapCall("poll", "GetTransportInfo")}
          /\ dl_ev' = [kind |-> "poll", observed |-> new_state,
                       in_grace |-> InGracePeriod, before |-> dl_state,
                       after |-> dl_state', track_ended |-> track_ended' # track_ended,
                       last_command |-> dl_last_command,
                       stopped_by |-> stopped_by]
    /\ UNCHANGED <<dl_now, playback_started_at, device_state, stopped_by, dl_command,
                   dl_last_command, nonDlnaVars>>

\* GetPositionInfo is answered
PollPosition ==
    /\ poll.pc = "position"
    /\ poll' = [pc |-> "sleep", wake |-> dl_now + STATE_POLL_INTERVAL_SECONDS]
    /\ in_flight' = in_flight \ {SoapCall("poll", "GetPositionInfo")}
    /\ UNCHANGED <<dl_now, dl_state, playback_started_at, device_state, stopped_by,
                   dl_command, dl_last_command, track_ended, dl_ev, nonDlnaVars>>

NextDlna ==
    \/ \E s \in DeviceStates : DeviceChange(s)
    \/ DeviceStop
    \/ DlTick
    \/ DlPlay
    \/ \E ok \in BOOLEAN : DlSetUriAnswered(ok)
    \/ \E ok \in BOOLEAN : DlPlayAnswered(ok)
    \/ \E cmd \in {"pause", "stop"} : DlCommand(cmd)
    \/ \E ok \in BOOLEAN : DlCommandAnswered(ok)
    \/ PollWake
    \/ PollTransportInfo
    \/ PollPosition

SpecDlna == Init /\ [][NextDlna]_vars

(***************************************************************************)
(* AudioProxyServer._handle_audio with MetadataServiceURLProvider and      *)
(* MetadataService.  Streaming URLs are numbered in the order the API      *)
(* issues them; 0 is the empty string.                                     *)
(***************************************************************************)
\* the clock moves in steps of PxTickSeconds, MaxPxTicks times; URLs issued
PxTickSeconds == 60
MaxPxTicks == 6
MaxUrls == 3
DEFAULT_URL_MAX_AGE_SECONDS == 240
URL_TTL_SECONDS == 300
URL_EXPIRY_BUFFER_SECONDS == 30

\* TrackMetadata.is_url_expired
CacheUrlExpired(c) ==
    \/ c.streaming_url = 0
    \/ c.streaming_url_expires_at = 0
    \/ px_now + URL_EXPIRY_BUFFER_SECONDS >= c.streaming_url_expires_at
\* RegisteredTrack.is_url_expired
TrackUrlExpired(t) == px_now - t.url_fetched_at >= DEFAULT_URL_MAX_AGE_SECONDS

\* MetadataService.get_streaming_url: get_metadata(track_id, fetch_url=True)
\* and its streaming_url.  meta_ok and url_ok say whether the API call for
\* the metadata and for the URL succeeds if it is made.  The result has the
\* cache entry afterwards, the URL returned (0 is None or empty) and
\* whether an API call was made and failed.
GetStreamingUrl(meta_ok, url_ok) ==
    IF px_cache.present /\ ~CacheUrlExpired(px_cache)
    THEN [cache |-> px_cache, url |-> px_cache.streaming_url, failed |-> FALSE,
          issued |-> FALSE]
    ELSE IF ~px_cache.present /\ ~meta_ok
    THEN [cache |-> px_cache, url |-> 0, failed |-> TRUE, issued |-> FALSE]
    ELSE LET metadata == IF px_cache.present THEN px_cache
                         ELSE [present |-> TRUE, streaming_url |-> 0,
                               streaming_url_expires_at |-> 0]
             fetched == IF url_ok
                        THEN [metadata EXCEPT
                                !.streaming_url = px_urls + 1,
                                !.streaming_url_expires_at = px_now + URL_TTL_SECONDS]
                        ELSE metadata
         IN [cache |-> fetched, url |-> fetched.streaming_url,
             failed |-> ~url_ok, issued |-> url_ok]

\* the record of the URLs issued after a call of get_streaming_url
Issued(r) == IF r.issued
             THEN Append(px_issued, [at |-> px_now, quality |-> px_quality])
             ELSE px_issued

\* time passes
PxTick ==
    /\ px_now < MaxPxTicks * PxTickSeconds
    /\ px_now' = px_now + PxTickSeconds
    /\ px_ev' = [kind |-> "tick"]
    /\ UNCHANGED <<px_track, px_cache, px_urls, px_issued, px_queue_url,
                   px_quality, nonProxyVars>>

\* load_queue: the queue holds new QueueTrack objects, without a URL
PxLoadQueue ==
    /\ px_queue_url # 0
    /\ px_queue_url' = 0
    /\ px_ev' = [kind |-> "load"]
    /\ UNCHANGED <<px_now, px_track, px_cache, px_urls, px_issued, px_quality,
                   nonProxyVars>>

\* _preload_upcoming for the track: a track without a URL gets the one
\* the URL callback returns
PxPreload(meta_ok, url_ok) ==
    /\ px_urls < MaxUrls
    /\ px_queue_url = 0
    /\ LET r == GetStreamingUrl(meta_ok, url_ok) IN
       /\ px_cache' = r.cache
       /\ px_urls' = IF r.issued THEN px_urls + 1 ELSE px_urls
       /\ px_issued' = Issued(r)
       /\ px_queue_url' = r.url
    /\ px_ev' = [kind |-> "preload"]
    /\ UNCHANGED <<px_now, px_track, px_quality, nonProxyVars>>

\* _start_playback: the URL stored on the track, or else the one the
\* metadata service returns, is handed to DLNABackend.play, which registers
\* the track with the proxy
PxPlay(meta_ok, url_ok) ==
    /\ px_urls < MaxUrls
    /\ LET stored == px_queue_url
           r == IF stored # 0
                THEN [cache |-> px_cache, url |-> stored, failed |-> FALSE,
                      issued |-> FALSE]
                ELSE GetStreamingUrl(meta_ok, url_ok)
       IN /\ px_cache' = r.cache
          /\ px_urls' = IF r.issued THEN px_urls + 1 ELSE px_urls
          /\ px_issued' = Issued(r)
          /\ px_queue_url' = r.url
          /\ px_track' = IF r.url # 0
                         THEN [registered |-> TRUE, qobuz_url |-> r.url,
                               url_fetched_at |-> px_now]
                         ELSE px_track
          /\ px_ev' = [kind |-> "play", url |-> r.url, stored |-> stored # 0]
    /\ UNCHANGED <<px_now, px_quality, nonProxyVars>>

\* the cache entry is evicted or the cache is cleared
PxCacheEvict ==
    /\ px_cache.present
    /\ px_cache' = [present |-> FALSE, streaming_url |-> 0,
                    streaming_url_expires_at |-> 0]
    /\ px_ev' = [kind |-> "evict"]
    /\ UNCHANGED <<px_now, px_track, px_urls, px_issued, px_queue_url,
                   px_quality, nonProxyVars>>

\* set_max_quality(quality): a new quality empties the URL of every cache
\* entry and keeps the rest
SetMaxQuality(quality) ==
    /\ quality # px_quality
    /\ px_quality' = quality
    /\ px_cache' = IF px_cache.present
                   THEN [px_cache EXCEPT !.streaming_url = 0,
                                         !.streaming_url_expires_at = 0]
                   ELSE px_cache
    /\ px_ev' = [kind |-> "quality"]
    /\ UNCHANGED <<px_now, px_track, px_urls, px_issued, px_queue_url,
                   nonProxyVars>>

\* _handle_audio: GET /audio/{track_id}; _proxy_stream contacts upstream
HandleAudio(meta_ok, url_ok) ==
    /\ px_urls < MaxUrls
    /\ IF ~px_track.registered
       THEN /\ px_ev' = [kind |-> "audio", status |-> 404, refresh |-> FALSE,
                         failed |-> FALSE, upstream |-> FALSE, url |-> 0]
            /\ UNCHANGED <<px_track, px_cache, px_urls, px_issued>>
       ELSE IF ~TrackUrlExpired(px_track)
       THEN /\ px_ev' = [kind |-> "audio", status |-> 200, refresh |-> FALSE,
                         failed |-> FALSE, upstream |-> TRUE,
                         url |-> px_track.qobuz_url]
            /\ UNCHANGED <<px_track, px_cache, px_urls, px_issued>>
       ELSE LET r == GetStreamingUrl(meta_ok, url_ok) IN
            /\ px_cache' = r.cache
            /\ px_urls' = IF r.issued THEN px_urls + 1 ELSE px_urls
            /\ px_issued' = Issued(r)
            /\ IF r.url = 0
               THEN \* MetadataServiceURLProvider raises RuntimeError
                    /\ UNCHANGED px_track
                    /\ px_ev' = [kind |-> "audio", status |-> 502,
                                 refresh |-> TRUE, failed |-> r.failed,
                                 upstream |-> FALSE, url |-> 0]
               ELSE /\ px_track' = [px_track EXCEPT !.qobuz_url = r.url,
                                                    !.url_fetched_at = px_now]
                    /\ px_ev' = [kind |-> "audio", status |-> 200,
                                 refresh |-> TRUE, failed |-> r.failed,
                                 upstream |-> TRUE, url |-> r.url]
    /\ UNCHANGED <<px_now, px_queue_url, px_quality, nonProxyVars>>

NextProxy ==
    \/ PxTick
    \/ PxLoadQueue
    \/ \E meta_ok \in BOOLEAN, url_ok \in BOOLEAN : PxPreload(meta_ok, url_ok)
    \/ \E meta_ok \in BOOLEAN, url_ok \in BOOLEAN : PxPlay(meta_ok, url_ok)
    \/ PxCacheEvict
    \/ \E quality \in Qualities : SetMaxQuality(quality)
    \/ \E meta_ok \in BOOLEAN, url_ok \in BOOLEAN : HandleAudio(meta_ok, url_ok)

SpecProxy == Init /\ [][NextProxy]_vars

(***************************************************************************)
(* RingBuffer (backends/local/ring_buffer.py): a writer thread, a reader   *)
(* thread and a thread that clears, each a statement at a time.  The       *)
(* decoded track is the frames 1..MaxFrames; the writer offers the frames  *)
(* that follow the ones accepted so far, as the feeding loop does.         *)
(***************************************************************************)
\* the longest data written and the most frames read in one call
MaxChunk == 3

\* a lock that excludes nobody
LockIgnored == TRUE
\* threading.Lock: acquired by one thread at a time
LockFree == rb_lock = "none"

\* write(): frames = min(len(data), capacity - available)
WriteFrames(data) == Min(Len(data), Capacity - rb_available)

\* write(): the two slice assignments, with the wrap-around
CopyIn(buf, pos, data, frames) ==
    LET end_pos == pos + frames
        first_chunk == Capacity - pos
    IN [i \in 0..(Capacity - 1) |->
          IF end_pos <= Capacity
          THEN IF i >= pos /\ i < end_pos THEN data[i - pos + 1] ELSE buf[i]
          ELSE IF i >= pos THEN data[i - pos + 1]
               ELSE IF i < frames - first_chunk THEN data[first_chunk + i + 1]
               ELSE buf[i]]

\* read(): the slices copied into output, with the wrap-around
CopyOut(buf, pos, output, actual) ==
    LET end_pos == pos + actual
        first_chunk == Capacity - pos
    IN [k \in 1..Len(output) |->
          IF end_pos <= Capacity
          THEN IF k <= actual THEN buf[pos + k - 1] ELSE output[k]
          ELSE IF k <= first_chunk THEN buf[pos + k - 1]
               ELSE IF k <= actual THEN buf[k - 1 - first_chunk]
               ELSE output[k]]

AdvanceWritePos(pos, frames) == (pos + frames) % Capacity
\* a read position that never moves
StuckReadPos(pos, actual) == pos
AdvanceReadPos(pos, actual) == (pos + actual) % Capacity

\* the data of a write call of n frames: the frames after those accepted
NextData(n) == [k \in 1..n |-> Len(rb_written) + k]
\* np.zeros((frames, channels))
Zeros(n) == [k \in 1..n |-> 0]

\* write(data): the lock is taken and frames computed; no room, or no data,
\* returns 0 at once
WriteLock(n) ==
    /\ rb_writer.pc = "idle"
    /\ Len(rb_written) + n <= MaxFrames
    /\ LockFree
    /\ LET data == NextData(n)
           frames == WriteFrames(data)
       IN IF frames = 0
          THEN UNCHANGED <<rb_writer, rb_lock>>
          ELSE /\ rb_writer' = [pc |-> "copy", data |-> data, frames |-> frames]
               /\ rb_lock' = "writer"
    /\ UNCHANGED <<rb_buffer, rb_write_pos, rb_read_pos, rb_available, rb_reader,
                   rb_clearer, rb_written, rb_read>>
    /\ UNCHANGED nonRingVars

\* write(): the frames are copied and _write_pos moves
WriteCopy ==
    /\ rb_writer.pc = "copy"
    /\ rb_buffer' = CopyIn(rb_buffer, rb_write_pos, rb_writer.data, rb_writer.frames)
    /\ rb_write_pos' = AdvanceWritePos(rb_write_pos, rb_writer.frames)
    /\ rb_writer' = [rb_writer EXCEPT !.pc = "avail"]
    /\ UNCHANGED <<rb_read_pos, rb_available, rb_lock, rb_reader, rb_clearer,
                   rb_written, rb_read>>
    /\ UNCHANGED nonRingVars

\* write(): _available += frames, and the return releases the lock
WriteAvail ==
    /\ rb_writer.pc = "avail"
    /\ rb_available' = rb_available + rb_writer.frames
    /\ rb_written' = rb_written \o SubSeq(rb_writer.data, 1, rb_writer.frames)
    /\ rb_writer' = [pc |-> "idle", data |-> <<>>, frames |-> 0]
    /\ rb_lock' = "none"
    /\ UNCHANGED <<rb_buffer, rb_write_pos, rb_read_pos, rb_reader, rb_clearer,
                   rb_read>>
    /\ UNCHANGED nonRingVars

\* read(frames): the lock is taken, output zeroed and actual computed; an
\* empty buffer returns the zeros at once
ReadLock(n) ==
    /\ rb_reader.pc = "idle"
    /\ LockFree
    /\ LET actual == Min(n, rb_available)
       IN IF actual > 0
          THEN /\ rb_reader' = [pc |-> "copy", output |-> Zeros(n), actual |-> actual]
               /\ rb_lock' = "reader"
          ELSE UNCHANGED <<rb_reader, rb_lock>>
    /\ UNCHANGED <<rb_buffer, rb_write_pos, rb_read_pos, rb_available, rb_writer,
                   rb_clearer, rb_written, rb_read>>
    /\ UNCHANGED nonRingVars

\* read(): the frames are copied out and _read_pos moves
ReadCopy ==
    /\ rb_reader.pc = "copy"
    /\ rb_reader' = [rb_reader EXCEPT
                       !.output = CopyOut(rb_buffer, rb_read_pos, rb_reader.output,
                                          rb_reader.actual),
                       !.pc = "avail"]
    /\ rb_read_pos' = AdvanceReadPos(rb_read_pos, rb_reader.actual)
    /\ UNCHANGED <<rb_buffer, rb_write_pos, rb_available, rb_lock, rb_writer,
                   rb_clearer, rb_written, rb_read>>
    /\ UNCHANGED nonRingVars

\* read(): _available -= actual, and the return releases the lock
ReadAvail ==
    /\ rb_reader.pc = "avail"
    /\ rb_available' = rb_available - rb_reader.actual
    /\ rb_read' = rb_read \o SubSeq(rb_reader.output, 1, rb_reader.actual)
    /\ rb_reader' = [pc |-> "idle", output |-> <<>>, actual |-> 0]
    /\ rb_lock' = "none"
    /\ UNCHANGED <<rb_buffer, rb_write_pos, rb_read_pos, rb_writer, rb_clearer,
                   rb_written>>
    /\ UNCHANGED nonRingVars

\* clear(): the lock is taken and both positions return to 0
ClearLock ==
    /\ rb_clearer = "idle"
    /\ LockFree
    /\ rb_lock' = "clearer"
    /\ rb_write_pos' = 0
    /\ rb_read_pos' = 0
    /\ rb_clearer' = "avail"
    /\ UNCHANGED <<rb_buffer, rb_available, rb_writer, rb_reader, rb_written, rb_read>>
    /\ UNCHANGED nonRingVars

\* clear(): _available = 0, and the lock is released
ClearAvail ==
    /\ rb_clearer = "avail"
    /\ rb_available' = 0
    /\ rb_clearer' = "idle"
    /\ rb_lock' = "none"
    /\ UNCHANGED <<rb_buffer, rb_write_pos, rb_read_pos, rb_writer, rb_reader,
                   rb_written, rb_read>>
    /\ UNCHANGED nonRingVars

\* free_space()
FreeSpace == Capacity - rb_available

\* one writer and one reader, no clear
NextSpsc ==
    \/ \E n \in 0..MaxChunk : WriteLock(n)
    \/ WriteCopy
    \/ WriteAvail
    \/ \E n \in 0..MaxChunk : ReadLock(n)
    \/ ReadCopy
    \/ ReadAvail

SpecSpsc == Init /\ [][NextSpsc]_vars

NextRing ==
    \/ NextSpsc
    \/ ClearLock
    \/ ClearAvail

SpecRing == Init /\ [][NextRing]_vars

(***************************************************************************)
(* QobuzProxy.stop (app.py): six stops, each inside its own try/except,    *)
(* each an await at which _setup_websocket may run.                        *)
(***************************************************************************)
\* the order of the stops in stop()
StopOrder == <<"state_reporter", "player", "ws_manager", "discovery",
               "proxy_server", "backend">>
StopDone == Len(StopOrder) + 1
\* what awaiting a component's stop can do
StopOutcomes == {"ok", "raises"}

\* start() up to _is_running = True: the backend, the proxy server of a DLNA
\* backend, the player and the discovery service exist
AppStart(dlna) ==
    /\ ~app_started
    /\ app_started' = TRUE
    /\ app_is_running' = TRUE
    /\ app_present' = {"backend", "player", "discovery"}
                        \cup (IF dlna THEN {"proxy_server"} ELSE {})
    /\ UNCHANGED <<app_stop_pc, app_at_stop, stop_attempts, stop_failed,
                   backend_disconnects>>
    /\ UNCHANGED nonShutdownVars

\* _setup_websocket up to its first await, started by a connect request the
\* discovery service still answers
AppSetupWebsocket ==
    /\ "discovery" \in app_present
    /\ "discovery" \notin Range(stop_attempts)
    /\ "ws_manager" \notin app_present
    /\ app_present' = app_present \cup {"ws_manager", "state_reporter"}
    /\ UNCHANGED <<app_started, app_is_running, app_stop_pc, app_at_stop,
                   stop_attempts, stop_failed, backend_disconnects>>
    /\ UNCHANGED nonShutdownVars

\* stop() up to its first stop
AppStopBegin ==
    /\ app_stop_pc = 0
    /\ app_is_running
    /\ app_is_running' = FALSE
    /\ app_stop_pc' = 1
    /\ app_at_stop' = app_present
    /\ UNCHANGED <<app_started, app_present, stop_attempts, stop_failed,
                   backend_disconnects>>
    /\ UNCHANGED nonShutdownVars

\* an exception that leaves stop()
StopAborts(pc, outcome) == IF outcome = "raises" THEN StopDone ELSE pc + 1
\* the step after a stop that returned or raised: except Exception logs
StopNext(pc, outcome) == pc + 1

\* one stop of stop(): skipped when the component is None, else awaited;
\* player.stop() disconnects the backend itself as its last statement
AppStopStep(outcome, reached) ==
    /\ app_stop_pc \in 1..Len(StopOrder)
    /\ LET c == StopOrder[app_stop_pc]
       IN IF c \in app_present
          THEN /\ stop_attempts' = Append(stop_attempts, c)
               /\ stop_failed' = IF outcome = "raises" THEN stop_failed \cup {c}
                                 ELSE stop_failed
               /\ backend_disconnects' =
                    IF c = "backend" \/ (c = "player" /\ (outcome = "ok" \/ reached))
                    THEN backend_disconnects + 1 ELSE backend_disconnects
               /\ app_stop_pc' = StopNext(app_stop_pc, outcome)
          ELSE /\ outcome = "ok"
               /\ ~reached
               /\ app_stop_pc' = app_stop_pc + 1
               /\ UNCHANGED <<stop_attempts, stop_failed, backend_disconnects>>
    /\ UNCHANGED <<app_started, app_is_running, app_present, app_at_stop>>
    /\ UNCHANGED nonShutdownVars

NextShutdown ==
    \/ \E dlna \in BOOLEAN : AppStart(dlna)
    \/ AppSetupWebsocket
    \/ AppStopBegin
    \/ \E outcome \in StopOutcomes, reached \in BOOLEAN : AppStopStep(outcome, reached)

SpecShutdown == Init /\ [][NextShutdown]_vars

TypeOK ==
    /\ state \in {"stopped", "loading", "playing", "paused", "error"}
    /\ current_track \in {0} \cup ObjIds
    /\ running \in {0} \cup TaskIds
    /\ backend.ring \in 0..RingCapacity
    /\ backend.frames_fed \in 0..TotalFrames

(***************************************************************************)
(* Claims                                                                  *)
(***************************************************************************)
\* the tasks suspended inside, or running, a player operation
InOperation == {t \in TaskIds : tasks[t].pc \in MidOpPcs \cup TransitPcs}

\* C1: player operations are serialized: at no time are two player
\* operations in progress at once.
C1_OperationsSerialized == Cardinality(InOperation) <= 1

\* the playing state of a SET_STATE that named another track is about to be
\* applied by task t
Applying(t) == /\ tasks[t].op = "set_state"
               /\ tasks[t].tid # 0
               /\ tasks[t].pc \in {"pl_begin", "pa_begin", "st_begin"}

\* C2: when a SET_STATE names another track than the player's, load_track
\* for it has been called and has completed before the playing state is
\* applied, so play is never applied to the previously loaded track.
C2_LoadBeforePlayingState ==
    /\ \A t \in TaskIds : Applying(t) => tasks[t].load_done
    /\ (ev.kind = "sp_begin" /\ ev.op = "set_state" /\ ev.want # 0 /\ ev.prev # 0)
          => ev.id # ev.prev

\* C3: whenever the backend fails while starting playback (no streaming URL,
\* download or decode failure), the play operation ends with the player in
\* state error and a state report of it emitted.
C3_BackendFailureEndsInError ==
    (ev.kind = "sp_no_url" \/ (ev.kind = "sp_done" /\ ~ev.ok))
       => (state = "error" /\ last_report.playing_state = "error")

\* C4: at a natural track end with repeat_mode not one, the player
\* auto-advances only if the most recent SET_STATE included a next queue item.
C4_AdvanceOnlyIfLastSetStateHadNext ==
    ev.kind = "te_advance" => ev.had_next

\* C5: at a natural track end with repeat_mode one, the same track restarts
\* from position 0 and the player stays playing: the backend goes on playing.
C5_RepeatOneKeepsPlaying ==
    ev.kind = "te_repeat_one" =>
       /\ state = "playing"
       /\ position_value_ms = 0
       /\ backend.state = "playing"
       /\ backend.feeding # "none"

\* C6: pause is accepted only in state playing; after it the position is
\* frozen: it is the live position at the moment of the pause and does not
\* change while the player is paused.
C6_PausedPositionFrozen ==
    /\ ev.kind = "pause" =>
          IF ev.was = "playing"
          THEN state = "paused" /\ position_value_ms = ev.live
          ELSE state = ev.was
    /\ ev.kind = "feed_paused" => position_value_ms = ev.value

\* C7: stop_playback is accepted in every state and always ends with state
\* stopped and position value 0, the queue cursor and the current track
\* where they were; called again it leaves the same state.
C7_StopPlayback ==
    ev.kind = "stop" =>
       /\ state = "stopped"
       /\ position_value_ms = 0
       /\ current_index = ev.index
       /\ current_track = ev.track
       /\ last_report.playing_state = "stopped"
       /\ last_report.position_value_ms = 0
       /\ (ev.was = "stopped" /\ ev.value = 0) =>
              (state = ev.was /\ position_value_ms = ev.value)

\* stop_playback has acted on a playing player
C7_Witness == ev.kind = "stop" /\ ev.was = "playing" /\ ev.value > 0

\* the clamp of p into [lo, hi]
Clamp(p, lo, hi) == IF p < lo THEN lo ELSE IF p > hi THEN hi ELSE p

\* what a seek that was carried out with position c leaves behind
SeekDone(c) ==
    /\ position_value_ms = c
    /\ position_timestamp_ms = now
    /\ last_report # NoReport
    /\ last_report.position_value_ms = c
    /\ backend.sample_rate > 0 => backend.seek_target = MsToFrames(c)

\* what a rejected seek leaves behind
SeekRejected ==
    /\ position_value_ms = ev.pre.value
    /\ backend.seek_target = ev.pre.seek_target
    /\ last_report = NoReport

\* C8 as stated: seek(p) is rejected, with no backend call and no anchor
\* change, when the player is stopped or has no current track; in every
\* other case the backend is asked for p clamped to [0, duration_ms - 1000],
\* the anchor value becomes that and a state report is sent.
C8_SeekAsStated ==
    ev.kind = "seek" =>
       IF ev.pre.state = "stopped" \/ ev.pre.track = 0
       THEN SeekRejected
       ELSE SeekDone(Clamp(ev.p, 0, Max(0, ev.pre.dur - SEEK_END_MARGIN_MS)))

\* C8 amended: seek(p) is rejected also when the known duration is not
\* positive; otherwise it is carried out with p clamped to
\* [0, max(0, duration_ms - 1000)].
C8_Seek ==
    ev.kind = "seek" =>
       IF ev.pre.state = "stopped" \/ ev.pre.track = 0 \/ ev.pre.dur <= 0
       THEN SeekRejected
       ELSE SeekDone(Clamp(ev.p, 0, Max(0, ev.pre.dur - SEEK_END_MARGIN_MS)))

\* a seek beyond the end of a playing track has been carried out, clamped
C8_Witness ==
    /\ ev.kind = "seek"
    /\ ev.pre.state = "playing"
    /\ ev.pre.dur > SEEK_END_MARGIN_MS
    /\ ev.p > ev.pre.dur
    /\ position_value_ms = ev.pre.dur - SEEK_END_MARGIN_MS

\* the frames written on connection c, in order
ConnWire(c) == SelectSeq(wire, LAMBDA e : e.conn = c)

\* C9: each connection writes AUTHENTICATE, SUBSCRIBE and JoinSession in
\* that order before any other frame, and the session is live only when all
\* three have been written on its connection.
C9_HandshakeFirst ==
    /\ \A c \in 1..connection :
          \A i \in 1..Len(ConnWire(c)) :
             IF i <= 3 THEN ConnWire(c)[i].kind = Handshake[i]
                       ELSE ConnWire(c)[i].kind = "DATA"
    /\ is_connected => Len(ConnWire(connection)) >= 3

\* a frame queued while the session was not live has been written on the
\* second connection, after its handshake
C9_Witness ==
    /\ is_connected
    /\ connection = 2
    /\ Len(ConnWire(2)) > 3
    /\ ws_phase = "flush"

\* C10: outbound frames are on the wire in the order of their send calls.
C10_WireInSendOrder ==
    \A i, j \in 1..Len(wire) :
       (i < j /\ wire[i].kind = "DATA" /\ wire[j].kind = "DATA")
          => wire[i].seq < wire[j].seq

\* the data frame of send call f has been written
OnWire(f) == \E i \in 1..Len(wire) : wire[i].kind = "DATA" /\ wire[i].seq = f

\* C11: every frame submitted while the session is not live is buffered,
\* and the buffered frames are written when the session is next live, in the
\* order of their submission: a buffered frame is either still buffered or
\* on the wire, none is on the wire before one buffered earlier, and once a
\* flush is over all of them are on the wire.
C11_BufferedFlushedInOrder ==
    /\ \A f \in buffered : OnWire(f) \/ f \in Range(pending_messages)
    /\ \A i, j \in 1..Len(wire) :
          (/\ i < j
           /\ wire[i].kind = "DATA" /\ wire[j].kind = "DATA"
           /\ wire[i].seq \in buffered /\ wire[j].seq \in buffered)
             => wire[i].seq < wire[j].seq
    /\ (ws_phase = "receive" /\ ~broken) => \A f \in buffered : OnWire(f)

\* C12: once the reconnect loop has found the token expired it stops: it
\* connects no more and the loop has ended.
C12_LoopEndsOnExpiredToken ==
    ws_ev.kind = "expired_turn" => (~should_run /\ ws_phase # "idle")

\* C13: the reconnect loop waits 1 s before the first retry and twice the
\* last wait before each further one, 60 s at most (1, 2, 4, 8, 16, 32, 60,
\* 60, ...), and a connection that reaches live sets the delay back to 1 s.
C13_BackoffSequence ==
    /\ fails > 0 => last_wait = Min(2^(fails - 1), 60)
    /\ reconnect_delay = Min(2^fails, 60)
    /\ ws_ev.kind = "live" => reconnect_delay = 1

\* after a connection that was live, seven turns of the loop have ended and
\* the wait has reached the cap
C13_Witness ==
    /\ connection >= 1
    /\ Len(ConnWire(1)) >= 3
    /\ fails = 7
    /\ last_wait = 60
    /\ reconnect_delay = 60

\* C16: the JoinSession of every connection attempt carries the effective
\* quality in force when it is sent.
C16_JoinCarriesEffectiveQuality ==
    ws_ev.kind = "join" => ws_ev.quality = effective_quality

\* C14: the first msgId a codec emits is 1, and every encode call emits
\* the msgId of the call before it plus 1.
C14_MsgIdStepsByOne ==
    codec_ev.kind = "encode" => codec_ev.msg_id = codec_ev.prev + 1

\* the frame is shorter than its type byte, its varint and the body length
\* the varint declares
ShortFrame(data) ==
    \/ Len(data) < 2
    \/ DecodeVarint(data, 1)[2] < 0
    \/ Len(data) < DecodeVarint(data, 1)[2] + DecodeVarint(data, 1)[1]

\* C15: decoding a frame shorter than 1 + varint size + declared body
\* length returns no message and leaves the codec as it was.
C15_ShortFrameFails ==
    (codec_ev.kind = "decode" /\ ShortFrame(codec_ev.data))
       => (codec_ev.result = None /\ msg_counter = codec_ev.counter)

\* C17: on_connect is invoked once, for the first valid POST; a later
\* valid POST replaces the stored session without invoking it again.
C17_OnConnectOnce == on_connect_calls <= 1

IsPermutation(f, n) == DOMAIN f = 0..(n - 1) /\ Range(f) = 0..(n - 1)

\* C18: in every reachable queue state shuffled_indexes is a permutation
\* of [0, n), n being the number of tracks in the queue.
C18_ShuffledIndexesPermutation == IsPermutation(shuffled_indexes, QLen)

\* a shuffled queue of two tracks whose order is not the identity and
\* whose cursor was moved to the last position
C18_Witness ==
    /\ QLen = 2
    /\ shuffle_enabled
    /\ q_ev.kind = "advance"
    /\ q_current_index = 1
    /\ shuffled_indexes # Identity(2)

\* C19: enabling shuffle with the current track's queue_item_id as pivot
\* leaves the current track the same, and so does disabling shuffle.
C19_ShuffleKeepsCurrent ==
    (q_ev.kind = "shuffle" /\ (~q_ev.enabled \/ q_ev.pivot_is_current))
        => CurrentItemId = q_ev.before

\* shuffle was just disabled on a queue whose shuffled order had the
\* current track away from its natural position
C19_Witness ==
    /\ q_ev.kind = "shuffle"
    /\ ~q_ev.enabled
    /\ q_ev.before # 0
    /\ q_ev.index_before # q_current_index

\* C20: a preload attempt that did not obtain the metadata or the URL of
\* a track does not mark the track as preloaded.
C20_FailedPreloadNotMarked ==
    (q_ev.kind = "preload" /\ q_ev.held /\ q_ev.failed)
        => q_ev.item \notin preloaded_ids

\* the item ids _invalidate_stale_preloads keeps: the current track and
\* the PRELOAD_COUNT positions after it
WindowIds ==
    {q_tracks[shuffled_indexes[idx]].queue_item_id :
        idx \in {j \in DOMAIN shuffled_indexes :
                    q_current_index <= j /\ j <= q_current_index + PRELOAD_COUNT}}

\* C21: after a cursor change or a reorder (advance_to_next, go_to_previous,
\* set_current_by_item_id, shuffle toggle) no track outside the new preload
\* window is marked as preloaded.
C21_NoMarkOutsideWindow ==
    q_ev.kind \in {"advance", "previous", "set_current", "shuffle"}
        => preloaded_ids \subseteq WindowIds

\* C22: every state report that reaches the controller carries the
\* player's position anchor unchanged: while playing, the timestamp and the
\* value on the wire are the pair the reporter read from the player, so
\* that value + (t - timestamp) is the player's live position.
C22_WireCarriesAnchor ==
    (sr_wire # NoStateReport /\ sr_wire.playing_state = "playing")
        => sr_wire.timestamp = sr_wire.anchor_timestamp

\* C23: outside fixed_volume mode every set_volume(v) call sets the
\* backend volume to v clamped to [0, 100], caches that value as the
\* player's volume and sends a VOLUME_CHANGED report carrying it.
C23_SetVolume ==
    vol_ev.kind = "set_volume"
        => /\ ~vol_ev.raised
           /\ backend_volume = ClampVolume(vol_ev.level)
           /\ player_volume = ClampVolume(vol_ev.level)
           /\ volume_reports # <<>>
           /\ volume_reports[Len(volume_reports)] = ClampVolume(vol_ev.level)

\* the five requests of the claim: 30, 31, 32, 33, 34, all issued at one
\* reading of the clock
VolumeBurst ==
    \A c \in 1..NVolCalls :
        /\ vol_calls[c].pc # "new"
        /\ vol_calls[c].level = 29 + c
        /\ vol_calls[c].at = vol_calls[1].at
\* nothing of the burst is still under way
VolumeQuiet ==
    /\ \A c \in 1..NVolCalls : vol_calls[c].pc = "done"
    /\ volume_debounce_task.st \in {"none", "done"}

\* C24: five volume requests 30..34 issued within 50 ms cause at most two
\* SOAP SetVolume sends, and once the burst is over the last value sent is
\* the one requested last.
C24_VolumeDebounce ==
    VolumeBurst
        => /\ Len(soap_sends) <= 2
           /\ VolumeQuiet => (soap_sends # <<>> /\
                              soap_sends[Len(soap_sends)] = 29 + NVolCalls)

\* C25: per SOAP service the requests are serialized: no two SOAP calls to
\* the same service are in flight at the same time, a call of the state
\* poll and a transport command of the player included.
C25_SoapSerialized ==
    \A a \in in_flight, b \in in_flight : a.service = b.service => a = b

\* C26: during the grace period after a successful SetAVTransportURI + Play
\* an observed STOPPED is ignored entirely: the pass of the poll loop that
\* observes it changes no backend state and raises no track_ended.
C26_StoppedIgnoredInGrace ==
    (/\ dl_ev.kind = "poll"
     /\ dl_ev.observed = "stopped"
     /\ dl_ev.in_grace
     /\ dl_ev.last_command = "play")
        => (dl_ev.after = dl_ev.before /\ ~dl_ev.track_ended)

\* C27: when the proxy has to refresh the upstream URL of a track and the
\* refresh fails, the request is answered 502 without contacting upstream,
\* and the track is still due for a refresh, so the next request tries
\* again instead of forwarding to the old URL.
C27_FailedRefreshIs502 ==
    (px_ev.kind = "audio" /\ px_ev.refresh /\ px_ev.failed)
        => /\ px_ev.status = 502
           /\ ~px_ev.upstream
           /\ TrackUrlExpired(px_track)

\* C28: at every instant, whatever the interleaving of write, read and clear,
\* 0 <= available <= capacity and available + free_space = capacity
C28_RingCounters ==
    /\ 0 <= rb_available
    /\ rb_available <= Capacity
    /\ rb_available + FreeSpace = Capacity

\* a full buffer that has wrapped around and been cleared before
C28_Witness ==
    /\ rb_available = Capacity
    /\ rb_write_pos = 1
    /\ Len(rb_written) = MaxFrames
    /\ Len(rb_read) = 1
    /\ rb_lock = "none"

\* C29: with one writer and one reader running concurrently, the frames read
\* returns before its padding are, in order, a prefix of the frames write
\* accepted: none lost, none duplicated, none reordered
C29_ReadIsPrefixOfWritten ==
    /\ Len(rb_read) <= Len(rb_written)
    /\ rb_read = SubSeq(rb_written, 1, Len(rb_read))

\* a read about to return three frames it took from both ends of the storage,
\* the last of them written by a write that had wrapped around as well
C29_Witness ==
    /\ rb_read = <<1>>
    /\ rb_reader.pc = "avail"
    /\ rb_reader.output = <<2, 3, 4>>
    /\ rb_buffer[0] = 4
    /\ rb_written = <<1, 2, 3, 4>>

\* C30: a seek the local backend accepted while a track is loaded is applied
\* by the feeder at its next turn and none is left pending: when the feeder
\* ends the track, no seek target is still waiting to be applied
C30_NoSeekLeftPending ==
    ev.kind = "track_ended" => backend.seek_target = -1

\* C31: the position the local backend reports is that of the audio already
\* output: max(0, (frames_fed - ring.available()) / sample_rate * 1000) ms
C31_PositionLatencyCorrected ==
    backend.sample_rate > 0 =>
        LocalGetPosition(backend) = Max(0, FramesToMs(backend.frames_fed - backend.ring))

\* the components of s, in the order of seq
RECURSIVE InOrder(_, _)
InOrder(seq, s) ==
    IF seq = <<>> THEN <<>>
    ELSE (IF Head(seq) \in s THEN <<Head(seq)>> ELSE <<>>) \o InOrder(Tail(seq), s)

\* C32: on shutdown the stops are attempted in the order state reporter,
\* player, WebSocket session, discovery, audio proxy, backend, and a stop that
\* fails does not keep the later ones from being attempted
C32_StopsAllInOrder ==
    /\ stop_attempts = InOrder(StopOrder, Range(stop_attempts))
    /\ app_stop_pc = StopDone => app_at_stop \subseteq Range(stop_attempts)

\* a shutdown of all six components in which the first two stops failed
C32_Witness ==
    /\ app_stop_pc = StopDone
    /\ Len(stop_attempts) = 6
    /\ {"state_reporter", "player"} \subseteq stop_failed

\* C33: a stop or a track change commanded through the player produces no
\* track_ended: the poll loop raises track_ended only for a renderer that
\* stopped by itself, never for one that carried out the player's Stop
C33_NoTrackEndedOnCommandedStop ==
    (dl_ev.kind = "poll" /\ dl_ev.track_ended) => dl_ev.stopped_by # "command"

\* C34: handling a SetShuffleMode command, on or off, leaves the queue's
\* current track the same track
C34_ShuffleCommandKeepsCurrent ==
    (q_ev.kind = "shuffle" /\ q_ev.pivot = 0) => CurrentItemId = q_ev.before

\* C35: at most one feeder task of the local backend is alive at any time,
\* also when play is called while an earlier play is still downloading
C35_AtMostOneFeeder == LiveFeeders(backend) <= 1

\* C36: at most one WebSocket session (connection loop) runs for the renderer
\* at any time: a new token handoff stops the previous session no later than
\* it starts the new one
C36_AtMostOneSession == Len(connection_loops) <= 1

\* C37: a preload mark always refers to a track of the queue that is loaded,
\* preloaded since the marks were last cleared: a fetch that was in flight
\* when load_queue replaced the tracks and cleared the marks leaves no mark
C37_NoMarkFromStaleFetch ==
    /\ preloaded_ids \subseteq {q_tracks[i].queue_item_id : i \in DOMAIN q_tracks}
    /\ (q_ev.kind = "preload" /\ ~q_ev.held) => q_ev.item \notin preloaded_ids

\* the age of a URL the API issued
UrlAge(url) == px_now - px_issued[url].at

\* C38: the streaming URL handed to the backend when playback of a track
\* starts was fetched less than TTL minus the safety margin ago, also when
\* it is a URL an earlier preload stored on the queue track
C38_PlayUrlFresh ==
    (px_ev.kind = "play" /\ px_ev.url # 0)
        => UrlAge(px_ev.url) < URL_TTL_SECONDS - URL_EXPIRY_BUFFER_SECONDS

\* C39: the upstream URL to which the audio proxy forwards a request was
\* issued less than its TTL of 300 s earlier, also after a refresh that
\* returned a cached URL
C39_UpstreamUrlWithinTtl ==
    (px_ev.kind = "audio" /\ px_ev.upstream)
        => UrlAge(px_ev.url) < URL_TTL_SECONDS

\* C40: a streaming URL used to start playback was fetched under the
\* quality setting in force, never under the one that set_max_quality
\* replaced, also when it was already stored on a queue track
C40_NoUrlOfPreviousQuality ==
    (px_ev.kind = "play" /\ px_ev.url # 0)
        => px_issued[px_ev.url].quality = px_quality

====
